---- MODULE Spec2Model ----
(***************************************************************************)
(* The local ledger storage layer of my-track-expenses.                    *)
(*                                                                         *)
(*   Spec      the engine bootstrap of src/src/db/index.ts: the module     *)
(*             level handles (dataSource, the seven services, initPromise, *)
(*             sqliteConnection), initializeDatabase, closeDatabase,       *)
(*             importDatabase and the accessors, run by concurrent         *)
(*             asynchronous callers.  Every `await` of the source is a     *)
(*             point where another caller may run; the code between two    *)
(*             awaits is one atomic step.                                   *)
(*   SpecRepo  the repository layer: BaseCRUDService and the Ledger,       *)
(*             Account and Category services built on it.                  *)
(***************************************************************************)
EXTENDS Integers, Sequences, FiniteSets, TLC

\* ------------------------------------------------------------------ bounds
MaxAttempts == 2      \* engine initializations started in one run

\* A null handle (ids are positive).
Null == 0

Callers      == {"c1", "c2"}
Platforms    == {"native", "web"}
ServiceNames == {"expense", "user", "ledger", "account", "category", "tag", "transaction"}
RowIds       == {"r1"}
Contents     == SUBSET RowIds               \* what a database holds
AttemptIds   == 1..MaxAttempts
InFlight     == {"options", "loaded", "opening", "opened"}

VARIABLES
  platform,          \* Capacitor.isNativePlatform(): "native" or "web", fixed for a run
  dataSource,        \* index.ts:19  the engine handle (the id of the attempt that built it) or Null
  services,          \* index.ts:20-26  the seven cached services
  initPromise,       \* index.ts:27  the in-flight marker: an attempt id or Null
  sqliteConnection,  \* index.ts:30  the native connection handle or Null
  attempts,          \* the async bodies started at index.ts:109, by id: where each stands
  nextAttempt,       \* the id the next attempt gets
  engInit,           \* the engines whose isInitialized flag is true
  engDb,             \* browser: the in-memory database of each engine
  kv,                \* browser: the key-value entry __TRACK_EXPENSES_DB__ (<<>> when absent)
  kvPending,         \* browser: the snapshot of the autosave writes issued (index.ts:68, not awaited) and not yet applied
  nativeDb,          \* native: the rows of the SQLite database track_expenses
  callers,           \* the asynchronous callers of the module's functions
  resetSeen,         \* history: closeDatabase or importDatabase has been called
  \* ---- repository layer (SpecRepo)
  Entity,            \* BaseCRUDService.Entity of the service under study
  rows,              \* the table of that entity: id -> row, for the ids that exist
  nextId,            \* the next generated primary key (ids are never reused)
  transactions,      \* the transactions table: id -> row
  now,               \* CURRENT_TIMESTAMP of the database, in whole seconds
  rc,                \* the asynchronous callers of the repository methods
  \* ---- transactions and their tags (SpecTx)
  tagRows,           \* the tags table next to the transactions: id -> row
  transactionTags,   \* the join table transaction_tags: rows [transactionId, tagId]
  \* ---- expense store (SpecStore)
  store,             \* stores/expense.ts:14-16  expenses, isLoading, isInitialized
  sc,                \* the asynchronous callers of the store's functions
  storeLog           \* history: what the store's calls have added and removed

bootVars == <<platform, dataSource, services, initPromise, sqliteConnection, attempts,
              nextAttempt, engInit, engDb, kv, kvPending, nativeDb, callers, resetSeen>>
sideVars == <<tagRows, transactionTags, store, sc, storeLog>>
repoVars == <<Entity, rows, nextId, transactions, now, rc, sideVars>>
vars     == <<bootVars, repoVars>>

\* ------------------------------------------------------------ bootstrap state
NoService   == [inst |-> Null, engine |-> Null]
NoServices  == [s \in ServiceNames |-> NoService]
IdleCaller  == [pc |-> "idle", op |-> "none", att |-> Null, target |-> Null, res |-> "none",
                solo |-> FALSE, blob |-> {}, path |-> "none",
                pre |-> [ok |-> FALSE, rows |-> {}]]
FreshAttempt == [pc |-> "unused", db |-> {}]

BootInit ==
  /\ platform \in Platforms
  /\ dataSource = Null
  /\ services = NoServices
  /\ initPromise = Null
  /\ sqliteConnection = Null
  /\ attempts = [a \in AttemptIds |-> FreshAttempt]
  /\ nextAttempt = 1
  /\ engInit = {}
  /\ engDb = [a \in AttemptIds |-> {}]
  /\ kv = <<>>
  /\ kvPending = <<>>
  /\ nativeDb = {}
  /\ callers = [c \in Callers |-> IdleCaller]
  /\ resetSeen = FALSE

\* what a repository method returned: null, an entity, true, false, or it threw
NoResult   == [tag |-> "none", row |-> <<>>]
\* stores/expense.ts:14-16  the store as defineStore sets it up
EmptyStore == [expenses |-> <<>>, isLoading |-> FALSE, isInitialized |-> FALSE]
IdleStoreCaller == [pc |-> "idle", op |-> "none", arg |-> <<>>, outcome |-> "none",
                    res |-> <<>>]
EmptyLog == [added |-> {}, removed |-> {}, sequential |-> TRUE, loaded |-> FALSE]
IdleRepoCaller == [pc |-> "idle", op |-> "none", key |-> Null, data |-> <<>>,
                   before |-> <<>>, clean |-> TRUE, res |-> NoResult]

RepoIdle ==
  /\ rows = <<>>
  /\ nextId = 1
  /\ transactions = <<>>
  /\ now = 0
  /\ rc = [c \in Callers |-> IdleRepoCaller]
  /\ tagRows = <<>>
  /\ transactionTags = {}
  /\ store = EmptyStore
  /\ sc = [c \in Callers |-> IdleStoreCaller]
  /\ storeLog = EmptyLog

Init == BootInit /\ Entity = "none" /\ RepoIdle

\* ---------------------------------------------------------- bootstrap helpers
\* index.ts:101, 227, 280, 301  dataSource?.isInitialized
IsInitialized == dataSource # Null /\ dataSource \in engInit

\* index.ts:226-228  isDatabaseInitialized()
isDatabaseInitialized == IsInitialized

\* index.ts:101-103  the early return of initializeDatabase
InitAlreadyReady_Never == FALSE
InitAlreadyReady == IsInitialized

\* index.ts:105-107  an initialization is in flight: return its promise
InitInFlight == initPromise # Null

\* index.ts:146-211  get<Entity>Service(): throws when the cached service is null
AccessorThrows(s) == services[s] = NoService
\* index.ts:216-221  getDataSource()
getDataSourceThrows == dataSource = Null

ServicesCached == \A s \in ServiceNames : ~AccessorThrows(s)
ServicesCleared == \A s \in ServiceNames : AccessorThrows(s)

\* BaseCRUDService.repository / findAll through a cached service: the service's
\* engine must be a connected DataSource, else the call throws.
ServiceUsable(s) ==
  /\ ~AccessorThrows(s)
  /\ services[s].engine # Null
  /\ services[s].engine \in engInit
EngineRows(e) == IF platform = "web" THEN engDb[e] ELSE nativeDb
FindAll(s) == IF ServiceUsable(s) THEN [ok |-> TRUE, rows |-> EngineRows(services[s].engine)]
              ELSE [ok |-> FALSE, rows |-> {}]

AttemptInFlight(a) == attempts[a].pc \in InFlight
NoAttemptInFlight == \A a \in AttemptIds : ~AttemptInFlight(a)

\* No other caller is inside a call and no initialization runs: the call of c is
\* not overlapped (kept up to date by Others as calls start).
Quiet(c) == (\A d \in Callers \ {c} : callers[d].pc = "idle") /\ NoAttemptInFlight
Others(c, cs) == [d \in Callers |->
                    IF d # c /\ cs[d].pc # "idle" THEN [cs[d] EXCEPT !.solo = FALSE] ELSE cs[d]]
StartCall(c, rec) == [Others(c, callers) EXCEPT ![c] = [rec EXCEPT !.solo = Quiet(c)]]

\* index.ts:283-291 and 310-318: the values the reset assigns
ClosedInitPromise_Kept == initPromise
ClosedInitPromise == Null

\* ------------------------------------------------------- initializeDatabase
\* index.ts:109-117: the async body starts; on native getNativeDataSourceOptions
\* (80-94, no await inside) has already replaced sqliteConnection when it yields.
StartAttempt(conn) ==
  /\ nextAttempt <= MaxAttempts
  /\ attempts' = [attempts EXCEPT ![nextAttempt] = [pc |-> "options", db |-> {}]]
  /\ initPromise' = nextAttempt
  /\ sqliteConnection' = IF platform = "native" THEN nextAttempt ELSE conn
  /\ nextAttempt' = nextAttempt + 1

\* index.ts:100-141  initializeDatabase(), up to its first await
InitCall(c) ==
  /\ callers[c].pc = "idle"
  /\ IF InitAlreadyReady
       THEN /\ callers' = StartCall(c, [IdleCaller EXCEPT !.pc = "done", !.op = "init", !.res = "ok"])
            /\ UNCHANGED <<initPromise, sqliteConnection, attempts, nextAttempt>>
       ELSE IF InitInFlight
         THEN /\ callers' = StartCall(c, [IdleCaller EXCEPT !.pc = "await_init", !.op = "init",
                                                             !.att = initPromise])
              /\ UNCHANGED <<initPromise, sqliteConnection, attempts, nextAttempt>>
         ELSE /\ StartAttempt(sqliteConnection)
              /\ callers' = StartCall(c, [IdleCaller EXCEPT !.pc = "await_init", !.op = "init",
                                                             !.att = nextAttempt])
  /\ UNCHANGED <<platform, dataSource, services, engInit, engDb, kv, kvPending, nativeDb,
                 resetSeen, repoVars>>

\* index.ts:133-137  catch: clear the marker, reject the attempt's promise
AttemptFails(a) ==
  /\ attempts' = [attempts EXCEPT ![a] = [pc |-> "rejected", db |-> {}]]
  /\ initPromise' = Null

\* index.ts:42-61  browser: read the persisted snapshot (storage.getItem)
AttemptLoad(a) ==
  /\ attempts[a].pc = "options"
  /\ platform = "web"
  /\ kvPending = <<>>
  /\ \E ok \in BOOLEAN :
       IF ok THEN /\ attempts' = [attempts EXCEPT ![a] =
                                    [pc |-> "loaded", db |-> IF kv = <<>> THEN {} ELSE kv[1]]]
                  /\ UNCHANGED initPromise
             ELSE AttemptFails(a)
  /\ UNCHANGED <<platform, dataSource, services, sqliteConnection, nextAttempt, engInit, engDb,
                 kv, kvPending, nativeDb, callers, resetSeen, repoVars>>

\* index.ts:115-122  dataSource = new DataSource(options); dataSource.initialize() is called
AttemptConstruct(a) ==
  /\ attempts[a].pc = IF platform = "web" THEN "loaded" ELSE "options"
  /\ dataSource' = a
  /\ engDb' = [engDb EXCEPT ![a] = attempts[a].db]
  /\ attempts' = [attempts EXCEPT ![a] = [pc |-> "opening", db |-> {}]]
  /\ UNCHANGED <<platform, services, initPromise, sqliteConnection, nextAttempt, engInit,
                 kv, kvPending, nativeDb, callers, resetSeen, repoVars>>

\* index.ts:122  inside dataSource.initialize(): the engine connects and sets its
\* isInitialized flag, or throws
AttemptOpen(a) ==
  /\ attempts[a].pc = "opening"
  /\ \E ok \in BOOLEAN :
       IF ok THEN /\ engInit' = engInit \cup {a}
                  /\ attempts' = [attempts EXCEPT ![a].pc = "opened"]
                  /\ UNCHANGED <<initPromise, engDb>>
             ELSE /\ AttemptFails(a)
                  /\ engDb' = [engDb EXCEPT ![a] = {}]
                  /\ UNCHANGED engInit
  /\ UNCHANGED <<platform, dataSource, services, sqliteConnection, nextAttempt,
                 kv, kvPending, nativeDb, callers, resetSeen, repoVars>>

\* index.ts:123-132  after the await: the seven services are built on the module's
\* dataSource variable as it is now; the attempt's promise resolves
AttemptCache(a) ==
  /\ attempts[a].pc = "opened"
  /\ services' = [s \in ServiceNames |-> [inst |-> a, engine |-> dataSource]]
  /\ attempts' = [attempts EXCEPT ![a].pc = "resolved"]
  /\ UNCHANGED <<platform, dataSource, initPromise, sqliteConnection, nextAttempt, engInit,
                 engDb, kv, kvPending, nativeDb, callers, resetSeen, repoVars>>

\* a call has settled: the caller holds its outcome
Done(c, res) == [IdleCaller EXCEPT !.pc = "done", !.op = callers[c].op, !.res = res,
                                   !.solo = callers[c].solo, !.blob = callers[c].blob,
                                   !.pre = callers[c].pre, !.target = callers[c].target,
                                   !.att = callers[c].att]

Settled(a) == attempts[a].pc \in {"resolved", "rejected"}
Outcome(a) == IF attempts[a].pc = "resolved" THEN "ok" ELSE "err"

\* index.ts:106, 140  the caller's promise follows the attempt's
InitReturn(c) ==
  /\ callers[c].pc = "await_init"
  /\ Settled(callers[c].att)
  /\ callers' = [callers EXCEPT ![c] = Done(c, Outcome(callers[c].att))]
  /\ UNCHANGED <<platform, dataSource, services, initPromise, sqliteConnection, attempts,
                 nextAttempt, engInit, engDb, kv, kvPending, nativeDb, resetSeen, repoVars>>

\* the caller goes on after its call
Return(c) ==
  /\ callers[c].pc = "done"
  /\ callers' = [callers EXCEPT ![c] = IdleCaller]
  /\ UNCHANGED <<platform, dataSource, services, initPromise, sqliteConnection, attempts,
                 nextAttempt, engInit, engDb, kv, kvPending, nativeDb, resetSeen, repoVars>>

\* ------------------------------------------------------------ closeDatabase
\* index.ts:310-318  the handles are cleared, the call resolves
CloseFinish(c) ==
  /\ dataSource' = Null
  /\ services' = NoServices
  /\ initPromise' = ClosedInitPromise
  /\ callers' = [callers EXCEPT ![c] = Done(c, "ok")]

\* index.ts:300-319  closeDatabase(), up to its first await
CloseCall(c) ==
  /\ callers[c].pc = "idle"
  /\ resetSeen' = TRUE
  /\ IF IsInitialized
       THEN /\ callers' = StartCall(c, [IdleCaller EXCEPT !.pc = "close_destroy", !.op = "close",
                                                           !.target = dataSource])
            /\ UNCHANGED <<dataSource, services, initPromise>>
       ELSE IF sqliteConnection # Null
         THEN /\ callers' = StartCall(c, [IdleCaller EXCEPT !.pc = "close_conns", !.op = "close"])
              /\ UNCHANGED <<dataSource, services, initPromise>>
         ELSE /\ dataSource' = Null
              /\ services' = NoServices
              /\ initPromise' = ClosedInitPromise
              /\ callers' = StartCall(c, [IdleCaller EXCEPT !.pc = "done", !.op = "close",
                                                             !.res = "ok"])
  /\ UNCHANGED <<platform, sqliteConnection, attempts, nextAttempt, engInit, engDb, kv,
                 kvPending, nativeDb, repoVars>>

\* index.ts:281, 302  inside dataSource.destroy(): the engine disconnects and clears
\* its isInitialized flag, or throws (also when it is not connected any more)
EngineDestroy(c, next) ==
  /\ \E ok \in BOOLEAN :
       IF ok /\ callers[c].target \in engInit
         THEN /\ engInit' = engInit \ {callers[c].target}
              /\ engDb' = [engDb EXCEPT ![callers[c].target] = {}]
              /\ callers' = [callers EXCEPT ![c].pc = next]
         ELSE /\ callers' = [callers EXCEPT ![c] = Done(c, "err")]
              /\ UNCHANGED <<engInit, engDb>>
  /\ UNCHANGED <<platform, dataSource, services, initPromise, sqliteConnection, attempts,
                 nextAttempt, kv, kvPending, nativeDb, resetSeen, repoVars>>

CloseDestroy(c) ==
  /\ callers[c].pc = "close_destroy"
  /\ EngineDestroy(c, "close_destroyed")

\* index.ts:305-318  after the destroy
CloseAfterDestroy(c) ==
  /\ callers[c].pc = "close_destroyed"
  /\ IF sqliteConnection # Null
       THEN /\ callers' = [callers EXCEPT ![c].pc = "close_conns"]
            /\ UNCHANGED <<dataSource, services, initPromise>>
       ELSE CloseFinish(c)
  /\ UNCHANGED <<platform, sqliteConnection, attempts, nextAttempt, engInit, engDb, kv,
                 kvPending, nativeDb, resetSeen, repoVars>>

\* index.ts:306-318  after closeAllConnections()
CloseConns(c) ==
  /\ callers[c].pc = "close_conns"
  /\ sqliteConnection' = Null
  /\ CloseFinish(c)
  /\ UNCHANGED <<platform, attempts, nextAttempt, engInit, engDb, kv, kvPending, nativeDb,
                 resetSeen, repoVars>>

\* ----------------------------------------------------------- importDatabase
\* index.ts:261  the persistence target: the native import only with a live connection handle
ImportPath == IF platform = "native" /\ sqliteConnection # Null THEN "native" ELSE "kv"

\* index.ts:260-277  importDatabase(data), up to its first await
ImportCall(c, blob) ==
  /\ callers[c].pc = "idle"
  /\ resetSeen' = TRUE
  /\ callers' = StartCall(c, [IdleCaller EXCEPT !.pc = "imp_write", !.op = "import",
                                                 !.blob = blob, !.path = ImportPath,
                                                 !.pre = FindAll("expense")])
  /\ UNCHANGED <<platform, dataSource, services, initPromise, sqliteConnection, attempts,
                 nextAttempt, engInit, engDb, kv, kvPending, nativeDb, repoVars>>

\* index.ts:283-293  reset every handle, then initializeDatabase(): with the handle
\* and the marker just cleared it starts a new attempt
ImportReinit(c) ==
  /\ dataSource' = Null
  /\ services' = NoServices
  /\ StartAttempt(Null)
  /\ callers' = [callers EXCEPT ![c].pc = "imp_init", ![c].att = nextAttempt]

\* index.ts:263 / 271-276  the blob is written: it goes through when the data
\* is in the notation the path decodes (a JSON dump for importFromJson, base64 for
\* atob) and the write succeeds, and throws otherwise; then 280-293
ImportWrite(c) ==
  /\ callers[c].pc = "imp_write"
  /\ callers[c].path = "kv" => kvPending = <<>>
  /\ \E ok \in BOOLEAN :
       IF ok
         THEN /\ IF callers[c].path = "native"
                   THEN nativeDb' = callers[c].blob /\ UNCHANGED kv
                   ELSE kv' = <<callers[c].blob>> /\ UNCHANGED nativeDb
              /\ IF IsInitialized
                   THEN /\ callers' = [callers EXCEPT ![c].pc = "imp_destroy",
                                                      ![c].target = dataSource]
                        /\ UNCHANGED <<dataSource, services, initPromise, sqliteConnection,
                                       attempts, nextAttempt>>
                   ELSE ImportReinit(c)
         ELSE /\ callers' = [callers EXCEPT ![c] = Done(c, "err")]
              /\ UNCHANGED <<dataSource, services, initPromise, sqliteConnection, attempts,
                             nextAttempt, kv, nativeDb>>
  /\ UNCHANGED <<platform, engInit, engDb, kvPending, resetSeen, repoVars>>

ImportDestroy(c) ==
  /\ callers[c].pc = "imp_destroy"
  /\ EngineDestroy(c, "imp_destroyed")

ImportAfterDestroy(c) ==
  /\ callers[c].pc = "imp_destroyed"
  /\ ImportReinit(c)
  /\ UNCHANGED <<platform, engInit, engDb, kv, kvPending, nativeDb, resetSeen, repoVars>>

\* index.ts:293  await initializeDatabase()
ImportReturn(c) ==
  /\ callers[c].pc = "imp_init"
  /\ Settled(callers[c].att)
  /\ callers' = [callers EXCEPT ![c] = Done(c, Outcome(callers[c].att))]
  /\ UNCHANGED <<platform, dataSource, services, initPromise, sqliteConnection, attempts,
                 nextAttempt, engInit, engDb, kv, kvPending, nativeDb, resetSeen, repoVars>>

\* ------------------------------------------- repository writes and the autosave
\* A committed write through the cached expense service (BaseCRUDService.create /
\* delete).  Browser: the engine's autosave hook (index.ts:66-69) issues
\* storage.setItem with the new snapshot and does not wait for it.  The key-value
\* store applies the requests it is given in the order they were issued, so the
\* reads and writes the module awaits are served once the earlier ones are applied,
\* and of the snapshots still to be applied only the newest is ever seen: kvPending
\* holds that one.
RepoWrite(c, newRows) ==
  /\ callers[c].pc = "idle"
  /\ ServiceUsable("expense")
  /\ newRows # EngineRows(services["expense"].engine)
  /\ IF platform = "web"
       THEN /\ engDb' = [engDb EXCEPT ![services["expense"].engine] = newRows]
            /\ kvPending' = <<newRows>>
            /\ UNCHANGED nativeDb
       ELSE /\ nativeDb' = newRows
            /\ UNCHANGED <<engDb, kvPending>>
  /\ callers' = Others(c, callers)
  /\ UNCHANGED <<platform, dataSource, services, initPromise, sqliteConnection, attempts,
                 nextAttempt, engInit, kv, resetSeen, repoVars>>

RepoCreate(c, r) ==
  /\ ServiceUsable("expense")
  /\ r \notin EngineRows(services["expense"].engine)
  /\ RepoWrite(c, EngineRows(services["expense"].engine) \cup {r})

RepoDelete(c, r) ==
  /\ ServiceUsable("expense")
  /\ r \in EngineRows(services["expense"].engine)
  /\ RepoWrite(c, EngineRows(services["expense"].engine) \ {r})

\* the key-value store applies the pending autosave writes
KvApply ==
  /\ kvPending # <<>>
  /\ kv' = kvPending
  /\ kvPending' = <<>>
  /\ UNCHANGED <<platform, dataSource, services, initPromise, sqliteConnection, attempts,
                 nextAttempt, engInit, engDb, nativeDb, callers, resetSeen, repoVars>>

Next ==
  \/ \E c \in Callers : InitCall(c)
  \/ \E a \in AttemptIds : AttemptLoad(a)
  \/ \E a \in AttemptIds : AttemptConstruct(a)
  \/ \E a \in AttemptIds : AttemptOpen(a)
  \/ \E a \in AttemptIds : AttemptCache(a)
  \/ \E c \in Callers : InitReturn(c)
  \/ \E c \in Callers : CloseCall(c)
  \/ \E c \in Callers : CloseDestroy(c)
  \/ \E c \in Callers : CloseAfterDestroy(c)
  \/ \E c \in Callers : CloseConns(c)
  \/ \E c \in Callers, blob \in Contents : ImportCall(c, blob)
  \/ \E c \in Callers : ImportWrite(c)
  \/ \E c \in Callers : ImportDestroy(c)
  \/ \E c \in Callers : ImportAfterDestroy(c)
  \/ \E c \in Callers : ImportReturn(c)
  \/ \E c \in Callers, r \in RowIds : RepoCreate(c, r)
  \/ \E c \in Callers, r \in RowIds : RepoDelete(c, r)
  \/ KvApply
  \/ \E c \in Callers : Return(c)

Spec == Init /\ [][Next]_vars

\* ------------------------------------------------------- bootstrap: the claims
\* Ready: the engine is open and the seven services are cached.
BootReady == IsInitialized /\ ServicesCached
\* Uninitialized, as closeDatabase leaves it.
AllCleared ==
  dataSource = Null /\ ServicesCleared /\ sqliteConnection = Null /\ initPromise = Null
Resolved(c, op) == callers[c].pc = "done" /\ callers[c].op = op /\ callers[c].res = "ok"
Rejected(c, op) == callers[c].pc = "done" /\ callers[c].op = op /\ callers[c].res = "err"

\* C1: when initializeDatabase() is called concurrently (no closeDatabase or
\* importDatabase called), at most one initialization attempt is in flight, and
\* every caller whose call has resolved finds the engine open and gets from every
\* accessor the repository instance of that one attempt.
C1_SingleFlightInit ==
  ~resetSeen =>
    /\ Cardinality({a \in AttemptIds : AttemptInFlight(a)}) <= 1
    /\ \A c \in Callers :
         Resolved(c, "init") =>
           /\ isDatabaseInitialized
           /\ \A s \in ServiceNames :
                ~AccessorThrows(s) /\ services[s] = [inst |-> dataSource, engine |-> dataSource]

\* C2: after a failed initialization (the last attempt was rejected, none is in
\* flight, no closeDatabase or importDatabase called) the bootstrap is back in
\* Uninitialized: the in-flight marker is cleared, isDatabaseInitialized() is
\* false, no repository is cached and no engine handle is exposed.
C2_FailedInitIsUninitialized ==
  \A a \in AttemptIds :
    (attempts[a].pc = "rejected" /\ nextAttempt = a + 1 /\ NoAttemptInFlight /\ ~resetSeen) =>
      /\ initPromise = Null
      /\ ~isDatabaseInitialized
      /\ ServicesCleared
      /\ getDataSourceThrows

\* C3: in every state other than Ready every accessor throws 'Database not
\* initialized': the seven get<Entity>Service and getDataSource.
C3_AccessorsThrowUnlessReady ==
  ~BootReady => (getDataSourceThrows /\ \A s \in ServiceNames : AccessorThrows(s))

\* C4: after an importDatabase(blob) that nothing overlapped has resolved, findAll()
\* on every repository returns exactly the rows of the blob.
C4_ImportReplacesRows ==
  \A c \in Callers :
    (Resolved(c, "import") /\ callers[c].solo) =>
      \A s \in ServiceNames : FindAll(s) = [ok |-> TRUE, rows |-> callers[c].blob]

\* C5: importDatabase on a usable store is all-or-nothing: when it rejects, the
\* store is still usable with the rows it had before the call; when it resolves,
\* the repositories answer with the rows of the blob.
C5_ImportAllOrNothing ==
  \A c \in Callers :
    (callers[c].pc = "done" /\ callers[c].op = "import" /\ callers[c].solo /\ callers[c].pre.ok) =>
      \A s \in ServiceNames :
        IF callers[c].res = "err"
          THEN BootReady /\ FindAll(s) = callers[c].pre
          ELSE BootReady /\ FindAll(s) = [ok |-> TRUE, rows |-> callers[c].blob]

\* C6: closeDatabase() is idempotent.  When a closeDatabase() resolves, the engine
\* it closed is not connected and the engine handle, the seven services, the native
\* connection handle and the in-flight marker are null (isDatabaseInitialized() is
\* false); a closeDatabase() called in that state resolves and changes nothing; an
\* initializeDatabase() called in that state starts an attempt that was never used
\* before, and the services an attempt caches are new instances of that attempt.
CloseResolves(c) ==
  callers[c].pc # "done" /\ callers'[c].pc = "done" /\ callers'[c].op = "close"
    /\ callers'[c].res = "ok"
C6_CloseIdempotent ==
  [][\A c \in Callers :
       /\ CloseResolves(c) =>
            /\ AllCleared'
            /\ ~isDatabaseInitialized'
            /\ callers'[c].target # Null => callers'[c].target \notin engInit'
       /\ (CloseCall(c) /\ AllCleared) =>
            /\ CloseResolves(c)
            /\ UNCHANGED <<dataSource, services, sqliteConnection, initPromise, attempts,
                           nextAttempt, engInit, engDb, kv, kvPending, nativeDb>>
       /\ (InitCall(c) /\ AllCleared) =>
            /\ attempts[nextAttempt].pc = "unused"
            /\ attempts'[nextAttempt].pc = "options"
            /\ initPromise' = nextAttempt
            /\ callers'[c].att = nextAttempt
       /\ \A a \in AttemptIds : AttemptCache(a) =>
            \A s \in ServiceNames : services'[s].inst = a /\ services'[s] # services[s]
    ]_vars
\* a closeDatabase() that closed an engine has resolved, and so has a second one
\* that found everything cleared
C6_Witness ==
  \E c, d \in Callers :
    /\ Resolved(c, "close") /\ callers[c].target # Null
    /\ Resolved(d, "close") /\ callers[d].target = Null
    /\ AllCleared /\ nextAttempt > 1

\* C7: initializeDatabase() called while the bootstrap is Ready constructs and opens
\* no engine and leaves the engine handle, the cached services, the in-flight
\* marker and the stored data unchanged, and the call does not fail.
C7_InitWhenReadyChangesNothing ==
  [][\A c \in Callers :
       (InitCall(c) /\ BootReady) =>
         /\ UNCHANGED <<dataSource, services, initPromise, sqliteConnection, attempts,
                        nextAttempt, engInit, engDb, kv, kvPending, nativeDb>>
         /\ callers'[c].res # "err"
    ]_vars
\* an initializeDatabase() that returned at once has resolved in Ready
C7_Witness ==
  \E c \in Callers : Resolved(c, "init") /\ callers[c].att = Null /\ BootReady

\* ======================================================== the repository layer
\* One service (LedgerService, AccountService or CategoryService) over its table,
\* with the engine open.  A repository method is asynchronous: each `await` of a
\* store operation is one atomic step of the database, and between the two awaits
\* of BaseCRUDService.update another caller may run.
MaxRows  == 2      \* rows created in one run
MaxClock == 1      \* seconds the database clock advances in one run
MaxTx    == 1      \* transactions created in one run

Entities   == {"Ledger", "Account", "Category"}
Keys       == 1..(MaxRows + 1)          \* MaxRows + 1 is a key no row ever gets
LedgerIds  == {"L1", "L2"}

\* the columns the queries and the updates of the three services name
Columns ==
  CASE Entity = "Ledger"   -> {"ownerId", "isActive", "updatedAt"}
    [] Entity = "Account"  -> {"ledgerId", "accountType", "currency", "includeInTotal",
                               "isActive", "updatedAt"}
    [] Entity = "Category" -> {"ledgerId", "categoryType", "parentId", "isActive",
                               "updatedAt"}
    [] OTHER               -> {}

\* the parents the category calls name: null, or the first category created
ParentIds == {Null} \cup (DOMAIN rows \cap {1})

\* the data handed to createLedger / createAccount / createCategory (id, createdAt
\* and updatedAt are not part of it); isActive may be left out
CreateData ==
  CASE Entity = "Ledger" ->
         {[ownerId |-> "u1"], [ownerId |-> "u2"], [ownerId |-> "u1", isActive |-> FALSE]}
    [] Entity = "Account" ->
         {[ledgerId |-> "L1", accountType |-> "cash", currency |-> "CNY"],
          [ledgerId |-> "L2", accountType |-> "cash", currency |-> "CNY"],
          [ledgerId |-> "L1", accountType |-> "bank", currency |-> "USD",
           includeInTotal |-> FALSE]}
    [] Entity = "Category" ->
         {[ledgerId |-> l, categoryType |-> "expense", parentId |-> p] :
             l \in {"L1"}, p \in ParentIds}
           \cup {[ledgerId |-> "L2", categoryType |-> "income", parentId |-> Null]}
    [] OTHER -> {}

\* the column defaults of the entity (isActive and includeInTotal: true)
ColumnDefault(col) ==
  CASE col = "isActive"       -> TRUE
    [] col = "includeInTotal" -> TRUE

\* repository.create(data) + save: the row inserted, stamped by the database
NewRow(data) ==
  [col \in Columns |->
     IF col = "updatedAt" THEN now
     ELSE IF col \in DOMAIN data THEN data[col] ELSE ColumnDefault(col)]

\* A where clause is a function from column names to <<value>>; a column given as
\* null or undefined is <<>>, and the query builder skips it: it adds no condition.
Matches(row, where) ==
  \A col \in DOMAIN where : where[col] = <<>> \/ row[col] = where[col][1]
\* repository.find({ where }): the ids of the rows returned
Find(where) == {id \in DOMAIN rows : Matches(rows[id], where)}

\* LedgerService
findActiveLedgers == Find([isActive |-> <<TRUE>>])
findByOwnerId(ownerId) == Find([ownerId |-> <<ownerId>>, isActive |-> <<TRUE>>])
\* AccountService and CategoryService
findByLedgerId(ledgerId) == Find([ledgerId |-> <<ledgerId>>, isActive |-> <<TRUE>>])
\* AccountService.findByType; CategoryService.findByType names categoryType
findByType(ledgerId, type) ==
  IF Entity = "Account"
    THEN Find([ledgerId |-> <<ledgerId>>, accountType |-> <<type>>, isActive |-> <<TRUE>>])
    ELSE Find([ledgerId |-> <<ledgerId>>, categoryType |-> <<type>>, isActive |-> <<TRUE>>])
findByCurrency(ledgerId, currency) ==
  Find([ledgerId |-> <<ledgerId>>, currency |-> <<currency>>, isActive |-> <<TRUE>>])
findAccountsIncludedInTotal(ledgerId) ==
  Find([ledgerId |-> <<ledgerId>>, isActive |-> <<TRUE>>, includeInTotal |-> <<TRUE>>])
\* CategoryService.findRootCategories(ledgerId, categoryType?): parentId is given
\* as null; categoryType is added when one is passed (<<>> when it is not)
findRootCategories(ledgerId, categoryType) ==
  Find([ledgerId |-> <<ledgerId>>, parentId |-> <<>>, isActive |-> <<TRUE>>,
        categoryType |-> categoryType])
findChildren(parentId) == Find([parentId |-> <<parentId>>, isActive |-> <<TRUE>>])

\* BaseCRUDService.findById: repository.findOne({ where: key(id) })
NullResult == [tag |-> "null", row |-> <<>>]
EntityResult(id) == [tag |-> "entity", row |-> <<[id |-> id, cols |-> rows[id]]>>]
findById(id) == IF id \in DOMAIN rows THEN EntityResult(id) ELSE NullResult

\* ------------------------------------------------- repository calls, step by step
\* the keys a caller can name: an id that was generated, or one that never is
KeyKnown(k) == k < nextId \/ k = MaxRows + 1
\* a caller is resumed with the result of its call as soon as the call settles,
\* before any other caller's next step
Free(c) == rc[c].pc = "idle" /\ \A d \in Callers : rc[d].pc # "done"
\* history: the updatedAt the row of key k has when a call names it
StampBefore(k) == IF k \in DOMAIN rows THEN <<rows[k].updatedAt>> ELSE <<>>
\* a write to row k by caller c lands between the write and the re-read of every
\* other caller's update of k
Overlapped(c, k) ==
  [d \in Callers |->
     IF d # c /\ rc[d].pc = "written" /\ rc[d].key = k
       THEN [rc[d] EXCEPT !.clean = FALSE] ELSE rc[d]]
Finished(op, k, res) ==
  [IdleRepoCaller EXCEPT !.pc = "done", !.op = op, !.key = k, !.res = res]

\* BaseCRUDService.findById(primaryKey)
FindByIdCall(c, k) ==
  /\ Free(c) /\ KeyKnown(k)
  /\ rc' = [rc EXCEPT ![c] = Finished("findById", k, findById(k))]
  /\ UNCHANGED <<bootVars, sideVars, Entity, rows, nextId, transactions, now>>

\* BaseCRUDService.create(data), reached through create<Entity>(data): the row is
\* inserted under a generated id with the column defaults and the database's stamp
CreateCall(c, data) ==
  /\ Free(c) /\ nextId <= MaxRows
  /\ rows' = [id \in DOMAIN rows \cup {nextId} |->
                IF id = nextId THEN NewRow(data) ELSE rows[id]]
  /\ nextId' = nextId + 1
  /\ rc' = [rc EXCEPT ![c] =
              [Finished("create", nextId, [tag |-> "entity",
                   row |-> <<[id |-> nextId, cols |-> NewRow(data)]>>])
                 EXCEPT !.data = data]]
  /\ UNCHANGED <<bootVars, sideVars, Entity, transactions, now>>

\* repository.update(key, data): the columns named by data are set on the rows the
\* key matches, and updatedAt = CURRENT_TIMESTAMP is added to the SET list
Merge(row, data) ==
  [col \in DOMAIN row |-> IF col \in DOMAIN data THEN data[col] ELSE row[col]]
UpdateStamp_Kept(row) == row.updatedAt
UpdateStamp(row) == now
UpdatedRows(k, data) ==
  IF k \in DOMAIN rows
    THEN [rows EXCEPT ![k] = [Merge(rows[k], data) EXCEPT !.updatedAt = UpdateStamp(rows[k])]]
    ELSE rows

\* the partial data of the update methods: archive<Entity>, restore<Entity>, and
\* CategoryService.moveToParent (to an existing category or to null: the foreign
\* key on parentId admits no other)
Partials_Zeroing ==
  {[op |-> "archive", data |-> [isActive |-> FALSE, currentBalance |-> 0]],
   [op |-> "restore", data |-> [isActive |-> TRUE]]}
    \cup (IF Entity = "Category"
            THEN {[op |-> "moveToParent", data |-> [parentId |-> p]] :
                    p \in ParentIds}
            ELSE {})
Partials ==
  {[op |-> "archive", data |-> [isActive |-> FALSE]],
   [op |-> "restore", data |-> [isActive |-> TRUE]]}
    \cup (IF Entity = "Category"
            THEN {[op |-> "moveToParent", data |-> [parentId |-> p]] :
                    p \in ParentIds}
            ELSE {})

\* BaseCRUDService.update, first await: repository.update(key, data)
UpdateWrite(c, k, p) ==
  /\ Free(c) /\ KeyKnown(k)
  /\ rows' = UpdatedRows(k, p.data)
  /\ rc' = [Overlapped(c, k) EXCEPT ![c] =
              [IdleRepoCaller EXCEPT !.pc = "written", !.op = p.op, !.key = k,
                                     !.data = p.data, !.before = StampBefore(k)]]
  /\ UNCHANGED <<bootVars, sideVars, Entity, nextId, transactions, now>>

\* BaseCRUDService.update, second await: return this.findById(primaryKey)
UpdateReread(c) ==
  /\ rc[c].pc = "written" /\ \A d \in Callers : rc[d].pc # "done"
  /\ rc' = [rc EXCEPT ![c].pc = "done", ![c].res = findById(rc[c].key)]
  /\ UNCHANGED <<bootVars, sideVars, Entity, rows, nextId, transactions, now>>

\* The foreign keys carry no onDelete: a row that a transaction or a child category
\* references cannot be deleted, the DELETE fails.
Referenced(k) ==
  \/ \E t \in DOMAIN transactions : transactions[t].ref = k
  \/ Entity = "Category" /\ \E id \in DOMAIN rows \ {k} : rows[id].parentId = k
  \/ Entity = "Transaction" /\ \E id \in DOMAIN rows : rows[id].originalTransactionId = k
\* The join table's foreign key to its owning side (transactionId) is created with
\* ON DELETE CASCADE: the join rows of a deleted transaction go with it.
Cascade_None(k) == transactionTags
Cascade(k) ==
  IF Entity = "Transaction"
    THEN {j \in transactionTags : j.transactionId # k}
    ELSE transactionTags
\* transaction.tags: the tags the join table attaches to transaction k
TagsOf(k) == {j.tagId : j \in {i \in transactionTags : i.transactionId = k}}
\* history: the tags a transaction has when a delete names it
TagsBefore(k) == IF Entity = "Transaction" THEN <<TagsOf(k)>> ELSE <<>>
\* result.affected of repository.delete(key)
Affected_Requested(k) == 1
Affected(k) == IF k \in DOMAIN rows THEN 1 ELSE 0

\* BaseCRUDService.delete(primaryKey)
DeleteCall(c, k) ==
  /\ Free(c) /\ KeyKnown(k)
  /\ IF k \in DOMAIN rows /\ Referenced(k)
       THEN /\ rc' = [rc EXCEPT ![c] = Finished("delete", k, [tag |-> "throws", row |-> <<>>])]
            /\ UNCHANGED <<rows, transactionTags>>
       ELSE /\ rows' = [id \in DOMAIN rows \ {k} |-> rows[id]]
            /\ transactionTags' = Cascade(k)
            /\ rc' = [Overlapped(c, k) EXCEPT ![c] =
                        [Finished("delete", k,
                                  [tag |-> IF Affected(k) > 0 THEN "true" ELSE "false",
                                   row |-> <<>>])
                           EXCEPT !.before = TagsBefore(k)]]
  /\ UNCHANGED <<bootVars, tagRows, store, sc, storeLog, Entity, nextId, transactions, now>>

\* TransactionService.createTransaction with a reference (ledgerId, fromAccountId or
\* categoryId, by the entity under study) to an existing row
CreateTransaction(c, k) ==
  /\ Free(c) /\ k \in DOMAIN rows
  /\ Cardinality(DOMAIN transactions) < MaxTx
  /\ transactions' = Append(transactions, [ref |-> k])
  /\ rc' = [rc EXCEPT ![c] = Finished("createTransaction", k, [tag |-> "entity", row |-> <<>>])]
  /\ UNCHANGED <<bootVars, sideVars, Entity, rows, nextId, now>>

\* the caller takes the result and is free for its next call
RepoReturn(c) ==
  /\ rc[c].pc = "done"
  /\ rc' = [rc EXCEPT ![c] = IdleRepoCaller]
  /\ UNCHANGED <<bootVars, sideVars, Entity, rows, nextId, transactions, now>>

\* a second passes on the database clock
Tick ==
  /\ now < MaxClock
  /\ now' = now + 1
  /\ UNCHANGED <<bootVars, sideVars, Entity, rows, nextId, transactions, rc>>

InitRepo == BootInit /\ platform = "web" /\ Entity \in Entities /\ RepoIdle

NextRepo ==
  \/ \E c \in Callers, k \in Keys : FindByIdCall(c, k)
  \/ \E c \in Callers, data \in CreateData : CreateCall(c, data)
  \/ \E c \in Callers, k \in Keys, p \in Partials : UpdateWrite(c, k, p)
  \/ \E c \in Callers : UpdateReread(c)
  \/ \E c \in Callers, k \in Keys : DeleteCall(c, k)
  \/ \E c \in Callers, k \in Keys : CreateTransaction(c, k)
  \/ \E c \in Callers : RepoReturn(c)
  \/ Tick

SpecRepo == InitRepo /\ [][NextRepo]_vars

\* ------------------------------------------------------ repository: the claims
UpdateOps == {"archive", "restore", "moveToParent"}

\* C8: findById, update and delete called with a key that matches no row return
\* null, null and false without throwing and leave the stored rows unchanged (the
\* update inserts nothing), and delete returns true exactly when it removed a row.
C8_MissingKeyNotFound ==
  [][\A c \in Callers, k \in Keys :
       /\ (FindByIdCall(c, k) /\ k \notin DOMAIN rows) =>
            rc'[c].res = NullResult /\ rows' = rows
       /\ (k \notin DOMAIN rows /\ \E p \in Partials : UpdateWrite(c, k, p)) =>
            rows' = rows
       /\ (UpdateReread(c) /\ rc[c].key = k /\ k \notin DOMAIN rows) =>
            rc'[c].res = NullResult /\ rows' = rows
       /\ DeleteCall(c, k) =>
            /\ k \notin DOMAIN rows => (rc'[c].res.tag = "false" /\ rows' = rows)
            /\ rc'[c].res.tag = "true" <=> (k \in DOMAIN rows /\ k \notin DOMAIN rows')
            /\ \A id \in DOMAIN rows \ {k} : id \in DOMAIN rows' /\ rows'[id] = rows[id]
    ]_vars
\* an archive call on the key of a deleted row has returned null, rows remaining
C8_Witness ==
  \E c \in Callers :
    /\ rc[c].pc = "done" /\ rc[c].op = "archive"
    /\ rc[c].key < nextId /\ rc[c].key \notin DOMAIN rows /\ rc[c].before = <<>>
    /\ rc[c].res = NullResult
    /\ DOMAIN rows # {}

\* C9 as stated: update(key, partial) on an existing key sets the columns of the
\* partial and keeps the others, returns the entity as re-read from the store, and
\* the returned updatedAt is strictly greater than the one the row had before.
C9_UpdateStrictlyLater ==
  [][\A c \in Callers :
       /\ \A k \in DOMAIN rows, p \in Partials :
            UpdateWrite(c, k, p) =>
              \A col \in Columns \ {"updatedAt"} :
                rows'[k][col] = IF col \in DOMAIN p.data THEN p.data[col] ELSE rows[k][col]
       /\ (UpdateReread(c) /\ rc[c].before # <<>>) =>
            /\ rc'[c].res.tag = "entity"
            /\ rc'[c].res.row[1] = [id |-> rc[c].key, cols |-> rows[rc[c].key]]
            /\ \A col \in DOMAIN rc[c].data :
                 rc'[c].res.row[1].cols[col] = rc[c].data[col]
            /\ rc'[c].res.row[1].cols.updatedAt > rc[c].before[1]
    ]_vars

\* C9 amended: update(key, partial) on an existing key sets the columns of the
\* partial, keeps the others and stamps updatedAt with the database clock, which
\* is not earlier than the previous stamp; when no other write to the row lands
\* between the write and the re-read, the call returns the entity as stored, with
\* the partial's values and an updatedAt not earlier than the one before the call.
C9_UpdateNotEarlier ==
  [][\A c \in Callers :
       /\ \A k \in DOMAIN rows, p \in Partials :
            UpdateWrite(c, k, p) =>
              /\ \A col \in Columns \ {"updatedAt"} :
                   rows'[k][col] = IF col \in DOMAIN p.data THEN p.data[col] ELSE rows[k][col]
              /\ rows'[k].updatedAt = now /\ now >= rows[k].updatedAt
       /\ (UpdateReread(c) /\ rc[c].before # <<>> /\ rc[c].clean) =>
            /\ rc'[c].res.tag = "entity"
            /\ rc'[c].res.row[1] = [id |-> rc[c].key, cols |-> rows[rc[c].key]]
            /\ \A col \in DOMAIN rc[c].data :
                 rc'[c].res.row[1].cols[col] = rc[c].data[col]
            /\ rc'[c].res.row[1].cols.updatedAt >= rc[c].before[1]
    ]_vars
\* an archive that nothing overlapped has returned the row, stamped later than before
C9_Witness ==
  \E c \in Callers :
    /\ rc[c].pc = "done" /\ rc[c].op = "archive" /\ rc[c].clean
    /\ rc[c].before # <<>>
    /\ rc[c].res.tag = "entity"
    /\ ~rc[c].res.row[1].cols.isActive
    /\ rc[c].res.row[1].cols.updatedAt > rc[c].before[1]

\* what each active-only query promises: the rows of its filter that are active
OwnerIds == {"u1", "u2"}
Types    == {"cash", "bank", "expense", "income"}
Currencies == {"CNY", "USD"}
ActiveOnlyQueries ==
  \A id \in DOMAIN rows :
    CASE Entity = "Ledger" ->
           /\ id \in findActiveLedgers <=> rows[id].isActive
           /\ \A o \in OwnerIds :
                id \in findByOwnerId(o) <=> (rows[id].ownerId = o /\ rows[id].isActive)
      [] Entity = "Account" ->
           \A l \in LedgerIds :
             /\ id \in findByLedgerId(l) <=> (rows[id].ledgerId = l /\ rows[id].isActive)
             /\ \A t \in Types :
                  id \in findByType(l, t) <=>
                    (rows[id].ledgerId = l /\ rows[id].accountType = t /\ rows[id].isActive)
             /\ \A cur \in Currencies :
                  id \in findByCurrency(l, cur) <=>
                    (rows[id].ledgerId = l /\ rows[id].currency = cur /\ rows[id].isActive)
             /\ id \in findAccountsIncludedInTotal(l) <=>
                  (rows[id].ledgerId = l /\ rows[id].includeInTotal /\ rows[id].isActive)
      [] Entity = "Category" ->
           /\ \A l \in LedgerIds :
                /\ id \in findByLedgerId(l) <=> (rows[id].ledgerId = l /\ rows[id].isActive)
                /\ \A t \in Types :
                     /\ id \in findByType(l, t) <=>
                          (rows[id].ledgerId = l /\ rows[id].categoryType = t
                             /\ rows[id].isActive)
                     /\ id \in findRootCategories(l, <<t>>) <=>
                          (rows[id].ledgerId = l /\ rows[id].parentId = Null
                             /\ rows[id].categoryType = t /\ rows[id].isActive)
                /\ id \in findRootCategories(l, <<>>) <=>
                     (rows[id].ledgerId = l /\ rows[id].parentId = Null /\ rows[id].isActive)
           /\ \A p \in Keys :
                id \in findChildren(p) <=> (rows[id].parentId = p /\ rows[id].isActive)
      [] OTHER -> TRUE

\* C10: after any sequence of create, archive and restore, each active-only query
\* returns a row exactly when the row matches the query's filter and its isActive
\* flag is true; an archive removes no row and no transaction, and the archived row
\* is still returned by findById, with isActive false.
C10_ActiveOnlyQueries ==
  [][/\ ActiveOnlyQueries'
     /\ \A c \in Callers, k \in DOMAIN rows :
          UpdateWrite(c, k, [op |-> "archive", data |-> [isActive |-> FALSE]]) =>
            /\ DOMAIN rows' = DOMAIN rows
            /\ transactions' = transactions
            /\ findById(k)'.tag = "entity"
            /\ ~findById(k)'.row[1].cols.isActive
    ]_vars

\* ===================================================== account balances
\* AccountService over the accounts table, balances only: createAccount, the
\* inherited create, and adjustBalance, which reads the account, computes the new
\* balance in the caller and writes it back (findById, repository.update, findById:
\* three awaits, between which another caller may run).
MaxAccounts == 1      \* accounts created in one run
MaxBalance  == 2      \* balances stay within -MaxBalance..MaxBalance

\* an input field is <<value>>, or <<>> when the caller leaves it undefined
BalanceInputs == {<<>>, <<0>>, <<1>>, <<2>>}
AccountData == [initialBalance : BalanceInputs, currentBalance : BalanceInputs]
Adjustments == {-1, 2}

\* AccountService.createAccount: currentBalance takes initialBalance when only the
\* latter is given
WithCurrentBalance(data) ==
  IF data.initialBalance # <<>> /\ data.currentBalance = <<>>
    THEN [data EXCEPT !.currentBalance = data.initialBalance]
    ELSE data

\* repository.create(data) + save on the accounts table: both balance columns
\* default to 0.  plain and adjusted are history: whether the row was created with
\* currentBalance = initialBalance and the adjustBalance calls on it have never
\* overlapped, and, as long as that is so, the sum of the adjustments written to it.
NewAccount(data) ==
  [initialBalance |-> IF data.initialBalance = <<>> THEN 0 ELSE data.initialBalance[1],
   currentBalance |-> IF data.currentBalance = <<>> THEN 0 ELSE data.currentBalance[1],
   updatedAt |-> now, adjusted |-> 0,
   plain |-> (IF data.initialBalance = <<>> THEN 0 ELSE data.initialBalance[1])
               = (IF data.currentBalance = <<>> THEN 0 ELSE data.currentBalance[1])]

InsertAccount(c, op, given, data) ==
  /\ Free(c) /\ nextId <= MaxAccounts
  /\ rows' = [id \in DOMAIN rows \cup {nextId} |->
                IF id = nextId THEN NewAccount(data) ELSE rows[id]]
  /\ nextId' = nextId + 1
  /\ rc' = [rc EXCEPT ![c] =
              [Finished(op, nextId, [tag |-> "entity",
                   row |-> <<[id |-> nextId, cols |-> NewAccount(data)]>>])
                 EXCEPT !.data = given]]
  /\ UNCHANGED <<bootVars, sideVars, Entity, transactions, now>>

\* AccountService.createAccount(data)
CreateAccount(c, data) == InsertAccount(c, "createAccount", data, WithCurrentBalance(data))
\* BaseCRUDService.create(data) called on the account service
CreateAccountGeneric(c, data) == InsertAccount(c, "create", data, data)

\* adjustBalance, first await: const account = await this.findById(id);
\* if (!account) return null
AdjustRead(c, k, d) ==
  /\ Free(c) /\ KeyKnown(k)
  /\ IF k \in DOMAIN rows
       THEN /\ rows[k].currentBalance + d \in -MaxBalance..MaxBalance
            /\ rc' = [rc EXCEPT ![c] =
                        [IdleRepoCaller EXCEPT !.pc = "read", !.op = "adjustBalance", !.key = k,
                                               !.data = [adjustment |-> d],
                                               !.before = <<rows[k].currentBalance>>]]
       ELSE rc' = [rc EXCEPT ![c] =
                     [Finished("adjustBalance", k, NullResult) EXCEPT !.data = [adjustment |-> d]]]
  /\ UNCHANGED <<bootVars, sideVars, Entity, rows, nextId, transactions, now>>

\* const newBalance = account.currentBalance + adjustment
NewBalance_Adjustment(account, adjustment) == adjustment
NewBalance(account, adjustment) == account + adjustment

\* adjustBalance, second await: repository.update(key, { currentBalance: newBalance })
\* inside this.update.  A write that lands while another adjustBalance of the same
\* account is between its read and its re-read overlaps it.
AdjustWrite(c) ==
  /\ rc[c].pc = "read"
  /\ LET k == rc[c].key
         d == rc[c].data.adjustment
         overlaps == \E o \in Callers \ {c} : rc[o].pc \in {"read", "written"} /\ rc[o].key = k
         written == UpdatedRows(k, [currentBalance |-> NewBalance(rc[c].before[1], d)])
     IN /\ rows' = IF k \in DOMAIN rows
                     THEN [written EXCEPT ![k].adjusted = IF rows[k].plain /\ ~overlaps
                                                            THEN @ + d ELSE 0,
                                          ![k].plain = @ /\ ~overlaps]
                     ELSE written
        /\ rc' = [o \in Callers |->
                    IF o = c THEN [rc[c] EXCEPT !.pc = "written"]
                    ELSE IF rc[o].pc \in {"read", "written"} /\ rc[o].key = k
                      THEN [rc[o] EXCEPT !.clean = FALSE] ELSE rc[o]]
  /\ UNCHANGED <<bootVars, sideVars, Entity, nextId, transactions, now>>

InitAccount == BootInit /\ platform = "web" /\ Entity = "Account" /\ RepoIdle

NextAccount ==
  \/ \E c \in Callers, data \in AccountData : CreateAccount(c, data)
  \/ \E c \in Callers, data \in AccountData : CreateAccountGeneric(c, data)
  \/ \E c \in Callers, k \in Keys, d \in Adjustments : AdjustRead(c, k, d)
  \/ \E c \in Callers : AdjustWrite(c)
  \/ \E c \in Callers : UpdateReread(c)
  \/ \E c \in Callers, k \in Keys : FindByIdCall(c, k)
  \/ \E c \in Callers : RepoReturn(c)

SpecAccount == InitAccount /\ [][NextAccount]_vars

\* ---------------------------------------------------- account balances: the claims
Created(c) == rc[c].pc = "done" /\ rc[c].op \in {"createAccount", "create"}
Given(field) == IF field = <<>> THEN 0 ELSE field[1]

\* C11 as stated: every account created through createAccount or the generic create,
\* whatever initialBalance and currentBalance the input holds, has currentBalance =
\* initialBalance immediately after creation.
C11_CreatedBalancesEqual ==
  \A c \in Callers :
    Created(c) =>
      /\ rc[c].res.row[1].cols.currentBalance = rc[c].res.row[1].cols.initialBalance
      /\ rows[rc[c].key].currentBalance = rows[rc[c].key].initialBalance

MaxTags  == 3      \* tags created in one run
TagNames == {"food", "trip"}
Colors   == {<<>>, <<"red">>}

\* repository.findOne({ where: { name } }): the rows an exact match on name selects
FindByName_None(name) == {}
FindByName(name) == {id \in DOMAIN rows : rows[id].name = name}

\* TagService.findOrCreate(name, color), up to the answer of findByName: an existing
\* tag is returned as found, otherwise the call goes on to createTag
FindOrCreateFind(c, name, color) ==
  /\ Free(c)
  /\ IF FindByName(name) # {}
       THEN \E id \in FindByName(name) :
              rc' = [rc EXCEPT ![c] =
                       [Finished("findOrCreate", id, EntityResult(id))
                          EXCEPT !.data = [name |-> name, color |-> color]]]
       ELSE LET racing == {o \in Callers \ {c} :
                             rc[o].pc = "missing" /\ rc[o].data.name = name}
            IN rc' = [o \in Callers |->
                        IF o = c
                          THEN [IdleRepoCaller EXCEPT !.pc = "missing",
                                                      !.op = "findOrCreate",
                                                      !.data = [name |-> name, color |-> color],
                                                      !.clean = (racing = {})]
                          ELSE IF o \in racing
                                 THEN [rc[o] EXCEPT !.clean = FALSE]
                                 ELSE rc[o]]
  /\ UNCHANGED <<bootVars, sideVars, Entity, rows, nextId, transactions, now>>

\* TagService.createTag({ name, color }), the second half of findOrCreate
NewTag_Unnamed(c) == [name |-> "", color |-> rc[c].data.color, solo |-> rc[c].clean]
NewTag(c) == [name |-> rc[c].data.name, color |-> rc[c].data.color, solo |-> rc[c].clean]
FindOrCreateCreate(c) ==
  /\ rc[c].pc = "missing" /\ nextId <= MaxTags
  /\ \A d \in Callers : rc[d].pc # "done"
  /\ rows' = [id \in DOMAIN rows \cup {nextId} |->
                IF id = nextId THEN NewTag(c) ELSE rows[id]]
  /\ nextId' = nextId + 1
  /\ rc' = [rc EXCEPT ![c] = [@ EXCEPT !.pc = "done", !.key = nextId,
                !.res = [tag |-> "entity", row |-> <<[id |-> nextId, cols |-> NewTag(c)]>>]]]
  /\ UNCHANGED <<bootVars, sideVars, Entity, transactions, now>>

InitTag == BootInit /\ platform = "web" /\ Entity = "Tag" /\ RepoIdle
NextTag ==
  \/ \E c \in Callers, name \in TagNames, color \in Colors : FindOrCreateFind(c, name, color)
  \/ \E c \in Callers : FindOrCreateCreate(c)
  \/ \E c \in Callers : RepoReturn(c)
SpecTag == InitTag /\ [][NextTag]_vars

\* C13: when findOrCreate calls do not overlap, findOrCreate(name) for a name that
\* already has a tag returns that tag (same id, same fields) and creates no row; a
\* call inserts a row only when no tag has the name, and then exactly one; so as
\* long as no two calls for a name overlapped there is exactly one tag per requested
\* name.
C13_FindOrCreateSequential ==
  [][/\ \A c \in Callers, name \in TagNames, color \in Colors :
          (FindOrCreateFind(c, name, color) /\ \E id \in DOMAIN rows : rows[id].name = name) =>
            /\ rows' = rows /\ nextId' = nextId
            /\ rc'[c].pc = "done" /\ rc'[c].res.tag = "entity"
            /\ rc'[c].key \in DOMAIN rows
            /\ rows[rc'[c].key].name = name
            /\ rc'[c].res.row[1] = [id |-> rc'[c].key, cols |-> rows[rc'[c].key]]
     /\ \A c \in Callers :
          (FindOrCreateCreate(c) /\ rc[c].clean) =>
            /\ \A id \in DOMAIN rows : rows[id].name # rc[c].data.name
            /\ Cardinality(DOMAIN rows') = Cardinality(DOMAIN rows) + 1
            /\ rc'[c].res.row[1].cols.name = rc[c].data.name
     /\ (\A id \in DOMAIN rows' : rows'[id].solo) =>
          /\ \A i, j \in DOMAIN rows' : rows'[i].name = rows'[j].name => i = j
          /\ \A c \in Callers :
               (rc'[c].pc = "done" /\ rc'[c].op = "findOrCreate") =>
                 Cardinality({id \in DOMAIN rows' : rows'[id].name = rc'[c].data.name}) = 1
    ]_vars
\* findOrCreate("food") has returned the tag that an earlier findOrCreate("food")
\* created, and a tag of another name exists as well
C13_Witness ==
  \E c \in Callers :
    /\ rc[c].pc = "done" /\ rc[c].op = "findOrCreate" /\ rc[c].data.name = "food"
    /\ rc[c].key = 1 /\ nextId = 3
    /\ rows[1].name = "food" /\ rows[2].name = "trip"
    /\ \A id \in DOMAIN rows : rows[id].solo

\* ------------------------------------------------- transactions and their tags
\* TransactionService over the transactions table (rows), with the tags table
\* (tagRows) and the join table transaction_tags (transactionTags) next to it.
Statuses    == {"pending", "completed", "voided"}
\* originalTransactionId: null or an existing transaction (the foreign key admits
\* no other)
OriginalIds == {Null} \cup (DOMAIN rows \cap {1})

\* repository.create(data) + save on Transaction: the columns given, the column
\* defaults for transactionType and status, null for originalTransactionId
NewTransaction(data) ==
  [transactionType |-> IF "transactionType" \in DOMAIN data
                         THEN data.transactionType ELSE "expense",
   status          |-> IF "status" \in DOMAIN data THEN data.status ELSE "completed",
   amount          |-> data.amount,
   currency        |-> data.currency,
   transactionDate |-> data.transactionDate,
   ledgerId        |-> data.ledgerId,
   originalTransactionId |-> IF "originalTransactionId" \in DOMAIN data
                               THEN data.originalTransactionId ELSE Null,
   updatedAt       |-> now]

\* TransactionService.createTransaction(data): the row is inserted and, the
\* transaction owning the relation, one join row per tag of data.tags
InsertTransaction(c, data) ==
  /\ Free(c) /\ nextId <= MaxRows
  /\ rows' = [id \in DOMAIN rows \cup {nextId} |->
                IF id = nextId THEN NewTransaction(data) ELSE rows[id]]
  /\ nextId' = nextId + 1
  /\ transactionTags' = transactionTags \cup
        {[transactionId |-> nextId, tagId |-> t] : t \in data.tags}
  /\ rc' = [rc EXCEPT ![c] =
              Finished("createTransaction", nextId,
                       [tag |-> "entity",
                        row |-> <<[id |-> nextId, cols |-> NewTransaction(data)]>>])]
  /\ UNCHANGED <<bootVars, tagRows, store, sc, storeLog, Entity, transactions, now>>

\* TagService.createTag({ name })
CreateTagCall(c, name) ==
  /\ Free(c) /\ Len(tagRows) < Cardinality(TagNames)
  /\ tagRows' = Append(tagRows, [name |-> name, color |-> <<>>])
  /\ rc' = [rc EXCEPT ![c] =
              Finished("createTag", Len(tagRows) + 1,
                       [tag |-> "entity",
                        row |-> <<[id |-> Len(tagRows) + 1,
                                   cols |-> [name |-> name, color |-> <<>>]]>>])]
  /\ UNCHANGED <<bootVars, transactionTags, store, sc, storeLog, Entity, rows, nextId, transactions, now>>

\* TransactionService.voidTransaction(id): this.update(id, { status: VOIDED })
VoidPartial_Amount == [status |-> "voided", amount |-> 0]
VoidPartial == [status |-> "voided"]
VoidTransaction(c, k) ==
  UpdateWrite(c, k, [op |-> "voidTransaction", data |-> VoidPartial])

\* what createTransaction is called with in this specification
TaggedData ==
  {[amount |-> 5, currency |-> "CNY", transactionDate |-> 1, ledgerId |-> "L1",
    tags |-> ts, originalTransactionId |-> o] :
      ts \in SUBSET DOMAIN tagRows, o \in OriginalIds}
    \cup
  {[amount |-> 5, currency |-> "CNY", transactionDate |-> 1, ledgerId |-> "L1",
    tags |-> {}, status |-> "pending"]}

InitTx == BootInit /\ platform = "web" /\ Entity = "Transaction" /\ RepoIdle
NextTx ==
  \/ \E c \in Callers, name \in TagNames : CreateTagCall(c, name)
  \/ \E c \in Callers, data \in TaggedData : InsertTransaction(c, data)
  \/ \E c \in Callers, k \in Keys : VoidTransaction(c, k)
  \/ \E c \in Callers : UpdateReread(c)
  \/ \E c \in Callers, k \in Keys : DeleteCall(c, k)
  \/ \E c \in Callers : RepoReturn(c)
  \/ Tick
SpecTx == InitTx /\ [][NextTx]_vars

\* C14: deleting a transaction removes the transaction row and its rows in the join
\* table only: the tags table is unchanged (every tag that was attached still
\* exists with the same fields), the join rows of every other transaction stay,
\* and no join row is left pointing to a missing transaction or tag; a delete
\* that removes nothing changes nothing.
C14_DeleteKeepsTags ==
  [][/\ \A c \in Callers, k \in Keys :
          DeleteCall(c, k) =>
            /\ tagRows' = tagRows
            /\ IF rc'[c].res.tag = "true"
                 THEN /\ DOMAIN rows' = DOMAIN rows \ {k}
                      /\ \A id \in DOMAIN rows' : rows'[id] = rows[id] /\ TagsOf(id)' = TagsOf(id)
                      /\ transactionTags' = {j \in transactionTags : j.transactionId # k}
                 ELSE rows' = rows /\ transactionTags' = transactionTags
     /\ \A j \in transactionTags' :
          j.transactionId \in DOMAIN rows' /\ j.tagId \in DOMAIN tagRows'
    ]_vars
\* transaction 1, which shared tag 1 with transaction 2, has been deleted: tag 1
\* still exists and transaction 2 still has it
C14_Witness ==
  \E c \in Callers :
    /\ rc[c].pc = "done" /\ rc[c].op = "delete" /\ rc[c].res.tag = "true"
    /\ rc[c].key = 1 /\ rc[c].before = <<{1, 2}>>
    /\ 1 \notin DOMAIN rows /\ 2 \in DOMAIN rows
    /\ Len(tagRows) = 2
    /\ transactionTags = {[transactionId |-> 2, tagId |-> 1]}

VoidOf(c) == rc[c].op = "voidTransaction"
\* C15 as stated: voidTransaction(id) leaves the row in place with status = voided
\* and every other column and its tag set unchanged, changes no other transaction,
\* returns the row as findById does, and on a missing id returns null without
\* creating a row.
C15_VoidChangesStatusOnly ==
  [][/\ \A c \in Callers, k \in Keys :
          VoidTransaction(c, k) =>
            /\ transactionTags' = transactionTags /\ tagRows' = tagRows
            /\ IF k \in DOMAIN rows
                 THEN rows' = [rows EXCEPT ![k].status = "voided"]
                 ELSE rows' = rows
     /\ \A c \in Callers :
          (UpdateReread(c) /\ VoidOf(c)) =>
            /\ rows' = rows
            /\ IF rc[c].before = <<>>
                 THEN rc'[c].res = NullResult
                 ELSE /\ rc'[c].res = findById(rc[c].key) /\ rc'[c].res.tag = "entity"
                      /\ rc'[c].res.row[1].cols.status = "voided"
    ]_vars

\* C15 amended: voidTransaction(id) leaves the row in place with status = voided,
\* updatedAt stamped with the database's current time, and every other column and
\* its tag set unchanged; it changes no other transaction; when no other call
\* writes to the row before the re-read it returns the row as findById does, with
\* status = voided; on a missing id it returns null without creating a row.
C15_VoidChangesStatusAndStamp ==
  [][/\ \A c \in Callers, k \in Keys :
          VoidTransaction(c, k) =>
            /\ transactionTags' = transactionTags /\ tagRows' = tagRows
            /\ IF k \in DOMAIN rows
                 THEN rows' = [rows EXCEPT ![k].status = "voided", ![k].updatedAt = now]
                 ELSE rows' = rows
     /\ \A c \in Callers :
          (UpdateReread(c) /\ VoidOf(c)) =>
            /\ rows' = rows
            /\ IF rc[c].before = <<>>
                 THEN rc'[c].res = NullResult
                 ELSE rc[c].clean =>
                        /\ rc'[c].res = findById(rc[c].key) /\ rc'[c].res.tag = "entity"
                        /\ rc'[c].res.row[1].cols.status = "voided"
    ]_vars
\* voidTransaction(1) has returned transaction 1, voided and still tagged, a second
\* after it was created, and transaction 2 is still completed
C15_Witness ==
  \E c \in Callers :
    /\ rc[c].pc = "done" /\ VoidOf(c) /\ rc[c].clean /\ rc[c].key = 1
    /\ rc[c].before = <<0>>
    /\ rc[c].res.tag = "entity" /\ rc[c].res.row[1].cols.status = "voided"
    /\ rc[c].res.row[1].cols.updatedAt = 1
    /\ TagsOf(1) # {}
    /\ 2 \in DOMAIN rows /\ rows[2].status = "completed"

\* ------------------------------------------------------- totals by type
\* TransactionService.getTotalByType over the transactions table.  A transactionDate
\* is a calendar date written YYYY-MM-DD, which the database compares as text: the
\* dates are numbered in calendar order.
Dates      == 1..3
DateBounds == {<<>>, <<2>>}          \* startDate / endDate: not given, or a date
Amounts    == {5, 7}
TotalArgs ==
  [ledgerId : LedgerIds, transactionType : {"expense", "income"},
   currency : {"CNY", "USD"}, startDate : DateBounds, endDate : DateBounds]
\* what createTransaction is called with in this specification: expenses of ledger
\* L1 in CNY, an income, a transaction in USD, one of ledger L2, a pending one
BaseData ==
  [ledgerId |-> "L1", transactionType |-> "expense", currency |-> "CNY", amount |-> 5,
   transactionDate |-> 2, tags |-> {}]
TotalsData ==
  {[BaseData EXCEPT !.amount = a, !.transactionDate = dt] : a \in Amounts, dt \in Dates}
    \cup {[BaseData EXCEPT !.ledgerId = "L2"], [BaseData EXCEPT !.transactionType = "income"],
          [BaseData EXCEPT !.currency = "USD"]}
    \cup {[ledgerId |-> "L1", transactionType |-> "expense", currency |-> "CNY",
           amount |-> 7, transactionDate |-> 2, tags |-> {}, status |-> "pending"]}

\* the where clause of the query: ledger, type, currency and status = completed,
\* and the date bounds that were given
TotalWhere_AnyStatus(row, args) ==
  /\ row.ledgerId = args.ledgerId
  /\ row.transactionType = args.transactionType
  /\ row.currency = args.currency
  /\ args.startDate # <<>> => row.transactionDate >= args.startDate[1]
  /\ args.endDate # <<>> => row.transactionDate <= args.endDate[1]
TotalWhere(row, args) ==
  /\ row.ledgerId = args.ledgerId
  /\ row.transactionType = args.transactionType
  /\ row.currency = args.currency
  /\ row.status = "completed"
  /\ args.startDate # <<>> => row.transactionDate >= args.startDate[1]
  /\ args.endDate # <<>> => row.transactionDate <= args.endDate[1]

RECURSIVE SumAmounts(_)
SumAmounts(ids) ==
  IF ids = {} THEN 0
  ELSE LET id == CHOOSE i \in ids : TRUE
       IN rows[id].amount + SumAmounts(ids \ {id})
\* SUM(transaction.amount) AS total of getRawOne(): NULL (<<>>) over no row,
\* otherwise the sum, which the driver hands over as a number
RawTotal(args) ==
  LET ids == {id \in DOMAIN rows : TotalWhere(rows[id], args)}
  IN IF ids = {} THEN <<>> ELSE <<SumAmounts(ids)>>

\* String(n) of an integer, as parseInt makes it of a number argument
DigitChars == <<"0", "1", "2", "3", "4", "5", "6", "7", "8", "9">>
RECURSIVE NatString(_)
NatString(n) ==
  IF n < 10 THEN <<DigitChars[n + 1]>>
  ELSE Append(NatString(n \div 10), DigitChars[(n % 10) + 1])
NumberString(n) == IF n < 0 THEN <<"-">> \o NatString(0 - n) ELSE NatString(n)
\* parseInt(string, 10): an optional sign, then the leading decimal digits; NaN when
\* there is none
IsDigit(ch) == \E i \in 1..10 : DigitChars[i] = ch
DigitValue(ch) == (CHOOSE i \in 1..10 : DigitChars[i] = ch) - 1
RECURSIVE ParseDigits(_, _)
ParseDigits(str, acc) ==
  IF str = <<>> \/ ~IsDigit(Head(str)) THEN acc
  ELSE ParseDigits(Tail(str), acc * 10 + DigitValue(Head(str)))
parseInt(str) ==
  LET neg  == str # <<>> /\ Head(str) = "-"
      body == IF neg THEN Tail(str) ELSE str
  IN IF body = <<>> \/ ~IsDigit(Head(body))
       THEN [tag |-> "NaN", row |-> <<>>]
       ELSE [tag |-> "number",
             row |-> <<IF neg THEN 0 - ParseDigits(body, 0) ELSE ParseDigits(body, 0)>>]

\* parseInt(result?.total ?? '0', 10)
getTotalByType(args) ==
  parseInt(IF RawTotal(args) = <<>> THEN <<"0">> ELSE NumberString(RawTotal(args)[1]))

GetTotalByTypeCall(c, args) ==
  /\ Free(c)
  /\ rc' = [rc EXCEPT ![c] =
              [Finished("getTotalByType", Null, getTotalByType(args))
                 EXCEPT !.data = args]]
  /\ UNCHANGED <<bootVars, sideVars, Entity, rows, nextId, transactions, now>>

InitTotals == BootInit /\ platform = "web" /\ Entity = "Transaction" /\ RepoIdle
NextTotals ==
  \/ \E c \in Callers, data \in TotalsData : InsertTransaction(c, data)
  \/ \E c \in Callers, k \in Keys : VoidTransaction(c, k)
  \/ \E c \in Callers : UpdateReread(c)
  \/ \E c \in Callers, args \in TotalArgs : GetTotalByTypeCall(c, args)
  \/ \E c \in Callers : RepoReturn(c)
SpecTotals == InitTotals /\ [][NextTotals]_vars

\* the transactions the claim counts, and the sum of their amounts
Counted(args) ==
  {id \in DOMAIN rows :
     /\ rows[id].ledgerId = args.ledgerId
     /\ rows[id].transactionType = args.transactionType
     /\ rows[id].currency = args.currency
     /\ rows[id].status = "completed"
     /\ \A b \in 1..Len(args.startDate) : args.startDate[b] <= rows[id].transactionDate
     /\ \A b \in 1..Len(args.endDate) : rows[id].transactionDate <= args.endDate[b]}
AmountOf(k, args) == IF k \in Counted(args) THEN rows[k].amount ELSE 0
ExpectedTotal(args) == AmountOf(1, args) + AmountOf(2, args) + AmountOf(3, args)

\* C16: getTotalByType(ledgerId, type, currency, startDate?, endDate?) returns the
\* sum of amount over exactly the completed transactions of that ledger, type and
\* currency whose transactionDate lies within the inclusive bounds that were given,
\* 0 when no transaction matches; pending and voided transactions never contribute,
\* so voiding a completed transaction lowers the totals that counted it by its
\* amount and no other.
C16_TotalByType ==
  [][/\ \A c \in Callers :
          (rc'[c].pc = "done" /\ rc'[c].op = "getTotalByType") =>
            \E args \in TotalArgs :
              /\ rc'[c].data = args
              /\ rc'[c].res = [tag |-> "number", row |-> <<ExpectedTotal(args)'>>]
     /\ \A k \in DOMAIN rows \cap DOMAIN rows' :
          (rows[k].status = "completed" /\ rows'[k].status = "voided") =>
            \A args \in TotalArgs :
              getTotalByType(args)'.row[1] = getTotalByType(args).row[1] - AmountOf(k, args)
    ]_vars
\* getTotalByType("L1", "expense", "CNY", 2, 2) has returned 7 while the ledger
\* holds a transaction of 7 on day 2 and a voided one of 5 on day 2
C16_Witness ==
  \E c \in Callers :
    /\ rc[c].pc = "done" /\ rc[c].op = "getTotalByType"
    /\ rc[c].data = [ledgerId |-> "L1", transactionType |-> "expense", currency |-> "CNY",
                     startDate |-> <<2>>, endDate |-> <<2>>]
    /\ rc[c].res = [tag |-> "number", row |-> <<7>>]
    /\ DOMAIN rows = {1, 2}
    /\ rows[1].amount = 5 /\ rows[1].status = "voided" /\ rows[1].transactionDate = 2
    /\ rows[1].ledgerId = "L1" /\ rows[1].currency = "CNY"
    /\ rows[1].transactionType = "expense"
    /\ rows[2].amount = 7 /\ rows[2].status = "completed" /\ rows[2].transactionDate = 2
    /\ rows[2].ledgerId = "L1" /\ rows[2].currency = "CNY"
    /\ rows[2].transactionType = "expense"


\* ------------------------------------------------------------- numbers
\* The amounts of the currency module are JavaScript numbers: IEEE 754 doubles,
\* here a sign, the exponent of the leading bit and the Precision bits of the
\* significand, leading bit first (zero has no bits).  Naturals of any size are
\* bit sequences, leading bit first, without leading zeros.  The amounts stay far
\* from the subnormal and the overflow range.
Precision == 53

RECURSIVE Bits(_)
Bits(n) == IF n = 0 THEN <<>> ELSE Append(Bits(n \div 2), n % 2)
Front(s) == SubSeq(s, 1, Len(s) - 1)
Zeros(k) == [i \in 1..k |-> 0]
AnyOne(s) == \E i \in 1..Len(s) : s[i] = 1
\* without the leading zeros
Stripped(s) ==
  IF AnyOne(s)
    THEN SubSeq(s, CHOOSE i \in 1..Len(s) : s[i] = 1 /\ ~AnyOne(SubSeq(s, 1, i - 1)), Len(s))
    ELSE <<>>
\* the bit of weight 2^i, and the sum of two naturals: the carry into a position
\* comes from the nearest lower position where both have a bit, through positions
\* where one of them has
BitAt(x, i) == IF i < Len(x) THEN x[Len(x) - i] ELSE 0
CarryInto(x, y, i) ==
  \E j \in 0..(i - 1) :
    /\ BitAt(x, j) = 1 /\ BitAt(y, j) = 1
    /\ \A k \in (j + 1)..(i - 1) : BitAt(x, k) + BitAt(y, k) >= 1
Add(x, y) ==
  LET n == (IF Len(x) > Len(y) THEN Len(x) ELSE Len(y)) + 1
  IN Stripped([p \in 1..n |->
       (BitAt(x, n - p) + BitAt(y, n - p) + (IF CarryInto(x, y, n - p) THEN 1 ELSE 0)) % 2])
\* b * m, one bit of m after the other
RECURSIVE MulBits(_, _)
MulBits(b, mbits) ==
  IF mbits = <<>> THEN <<>>
  ELSE Add(MulBits(b, Front(mbits)) \o <<0>>, IF mbits[Len(mbits)] = 1 THEN b ELSE <<>>)
Multiplied(b, m) == Stripped(MulBits(b, Bits(m)))
Inc(b) ==
  IF \A i \in 1..Len(b) : b[i] = 1 THEN <<1>> \o Zeros(Len(b))
  ELSE LET last == CHOOSE i \in 1..Len(b) :
                     b[i] = 0 /\ \A j \in (i + 1)..Len(b) : b[j] = 1
       IN [i \in 1..Len(b) |-> IF i < last THEN b[i] ELSE IF i = last THEN 1 ELSE 0]
RECURSIVE Power(_, _)
Power(base, e) == IF e = 0 THEN 1 ELSE base * Power(base, e - 1)

Zero == [neg |-> FALSE, exp |-> 0, mant |-> <<>>]
\* round to nearest, ties to even: p holds the leading bits of the exact value (at
\* least Precision of them), exp is the exponent of p[1], sticky tells whether the
\* exact value has more below p
RoundBits(neg, p, exp, sticky) ==
  LET kept  == SubSeq(p, 1, Precision)
      guard == Len(p) > Precision /\ p[Precision + 1] = 1
      below == sticky \/ AnyOne(SubSeq(p, Precision + 2, Len(p)))
      up    == guard /\ (below \/ kept[Precision] = 1)
      mant  == IF up THEN Inc(kept) ELSE kept
  IN IF Len(mant) > Precision
       THEN [neg |-> neg, exp |-> exp + 1, mant |-> SubSeq(mant, 1, Precision)]
       ELSE [neg |-> neg, exp |-> exp, mant |-> mant]

\* long division of the bits seg by d, coming in with remainder r: the quotient
\* bits and the remainder, the two halves one after the other
RECURSIVE Divided(_, _, _)
Divided(seg, d, r) ==
  IF Len(seg) = 1
    THEN LET down == 2 * r + seg[1]
         IN IF down >= d THEN [q |-> <<1>>, r |-> down - d] ELSE [q |-> <<0>>, r |-> down]
    ELSE LET h  == Len(seg) \div 2
             hi == Divided(SubSeq(seg, 1, h), d, r)
             lo == Divided(SubSeq(seg, h + 1, Len(seg)), d, hi.r)
         IN [q |-> hi.q \o lo.q, r |-> lo.r]
\* the double nearest to (-1)^neg * n / d, for a divisor below 2^DivisorBits: n is
\* divided with enough zeros brought down for Precision + 1 bits of the quotient
DivisorBits == 10
Nearest(neg, n, d) ==
  IF n = <<>> THEN Zero
  ELSE LET all   == Divided(n \o Zeros(Precision + 1 + DivisorBits), d, 0)
           first == CHOOSE i \in 1..Len(all.q) :
                      all.q[i] = 1 /\ ~AnyOne(SubSeq(all.q, 1, i - 1))
       IN RoundBits(neg, SubSeq(all.q, first, Len(all.q)), Len(n) - first, all.r # 0)

\* x * m in double arithmetic, for a small natural m that is itself a double
Times(x, factor) ==
  IF x.mant = <<>> THEN x
  ELSE LET product == Multiplied(x.mant, factor)
       IN RoundBits(x.neg, product, x.exp + (Len(product) - Precision), FALSE)

\* the integer part and the fraction bits of p * 2^(-fb)
IntPart(p, fb)  == IF fb >= Len(p) THEN <<>> ELSE SubSeq(p, 1, Len(p) - fb)
FracHalf(p, fb) == fb >= 1 /\ fb <= Len(p) /\ p[Len(p) - fb + 1] = 1
FracRest(p, fb) ==
  IF fb > Len(p) THEN AnyOne(p) ELSE AnyOne(SubSeq(p, Len(p) - fb + 2, Len(p)))
Shifted(p, k) == IF p = <<>> THEN p ELSE p \o Zeros(k)
Integer(neg, bits) == [neg |-> neg /\ bits # <<>>, bits |-> bits]

\* Math.round(x): the integer nearest to x, a tie going to the larger one
MathRound(x) ==
  LET fb == (Precision - 1) - x.exp
  IN IF x.mant = <<>> THEN Integer(FALSE, <<>>)
     ELSE IF fb <= 0 THEN Integer(x.neg, Shifted(x.mant, 0 - fb))
     ELSE LET int  == IntPart(x.mant, fb)
              half == FracHalf(x.mant, fb)
              rest == FracRest(x.mant, fb)
          IN IF x.neg
               THEN Integer(TRUE, IF half /\ rest THEN Inc(int) ELSE int)
               ELSE Integer(FALSE, IF half THEN Inc(int) ELSE int)

\* --------------------------------------------------------------- currency module
\* the registry: the currencies with a symbol, a country and ISO 4217 data; three
\* of the twenty stand for all, two with cents and one without
CurrencyCodes == {"CNY", "USD", "KRW"}
currencySymbols == [code \in CurrencyCodes |->
  IF code = "CNY" THEN "U+00A5" ELSE IF code = "USD" THEN "$" ELSE "U+20A9"]
currencyToCountry == [code \in CurrencyCodes |->
  IF code = "CNY" THEN "CN" ELSE IF code = "USD" THEN "US" ELSE "KR"]
\* data.digits of the currency-codes package
CurrencyDigits == [code \in CurrencyCodes |-> IF code = "KRW" THEN 0 ELSE 2]
buildCurrencyConfig(currencyCode) ==
  [code |-> currencyCode, symbol |-> currencySymbols[currencyCode],
   decimalPlaces |-> CurrencyDigits[currencyCode],
   countryCode |-> currencyToCountry[currencyCode]]
currencies == [code \in CurrencyCodes |-> buildCurrencyConfig(code)]
\* the registry is a plain object: under the name of a member of Object.prototype
\* a lookup finds that member, which has none of the configuration's properties
InheritedNames == {"constructor"}
CodeInputs == CurrencyCodes \cup InheritedNames \cup {"UNKNOWN"}
\* currencies[code]: the configuration, an inherited member, or undefined (<<>>)
Lookup(code) ==
  IF code \in DOMAIN currencies THEN <<currencies[code]>>
  ELSE IF code \in InheritedNames THEN <<[inherited |-> code]>>
  ELSE <<>>
\* entry.property and entry?.property: undefined (<<>>) when the entry has no such
\* property; the module reads a property of an undefined entry only with ?.
Property(entry, name) ==
  IF entry = <<>> THEN <<>>
  ELSE IF name \in DOMAIN entry[1] THEN <<entry[1][name]>> ELSE <<>>
\* !currency
Missing_Never(entry) == FALSE
Missing(entry) == entry = <<>>

Throws(code) == [tag |-> "throws", row |-> <<"Unknown currency code", code>>]
NaN          == [tag |-> "NaN", row |-> <<>>]
Undefined    == [tag |-> "undefined", row |-> <<>>]
Number(x)    == [tag |-> "number", row |-> <<x>>]
IsNumber(r)  == r.tag = "number"

\* the natural a short bit sequence stands for
RECURSIVE Value(_)
Value(b) == IF b = <<>> THEN 0 ELSE 2 * Value(Front(b)) + b[Len(b)]

\* Math.pow(10, currency.decimalPlaces): NaN for an undefined exponent
getCurrencyMultiplier(currencyCode) ==
  LET currency == Lookup(currencyCode)
  IN IF Missing(currency) THEN Throws(currencyCode)
     ELSE IF Property(currency, "decimalPlaces") = <<>> THEN NaN
     ELSE Number(Power(10, Property(currency, "decimalPlaces")[1]))

\* Math.round(amount * multiplier), the amount a double; a storage amount is kept
\* as an integer (minus zero as zero)
toStorageAmount(amount, currencyCode) ==
  LET multiplier == getCurrencyMultiplier(currencyCode)
  IN IF ~IsNumber(multiplier) THEN multiplier
     ELSE Number(MathRound(Times(amount, multiplier.row[1])))

\* storageAmount / multiplier, the storage amount an integer
toDisplayAmount(storageAmount, currencyCode) ==
  LET multiplier == getCurrencyMultiplier(currencyCode)
  IN IF ~IsNumber(multiplier) THEN multiplier
     ELSE Number(Nearest(storageAmount.neg, storageAmount.bits, multiplier.row[1]))

\* amount.toFixed(digits): the integer n nearest to |amount| * 10^digits, the
\* larger one on a tie, written with the point before its last digits, behind a
\* minus sign for an amount below zero
ToFixed(amount, digits) ==
  LET exact  == Multiplied(amount.mant, Power(10, digits))
      fb     == (Precision - 1) - amount.exp
      n      == IF fb <= 0 THEN Shifted(exact, 0 - fb)
                ELSE IF FracHalf(exact, fb) THEN Inc(IntPart(exact, fb))
                ELSE IntPart(exact, fb)
      short  == NatString(Value(n))
      padded == IF Len(short) > digits THEN short
                ELSE [i \in 1..(digits + 1 - Len(short)) |-> "0"] \o short
      whole  == SubSeq(padded, 1, Len(padded) - digits)
      cents  == SubSeq(padded, Len(padded) - digits + 1, Len(padded))
  IN (IF amount.neg /\ amount.mant # <<>> THEN <<"-">> ELSE <<>>)
       \o whole \o (IF digits > 0 THEN <<".">> \o cents ELSE <<>>)
\* `${currency.symbol}${amount.toFixed(currency.decimalPlaces)}`: an undefined
\* symbol is written out as the word, undefined digits are 0
formatCurrency(amount, currencyCode) ==
  LET currency == Lookup(currencyCode)
      symbol   == Property(currency, "symbol")
      places   == Property(currency, "decimalPlaces")
  IN IF Missing(currency) THEN Throws(currencyCode)
     ELSE [tag |-> "string",
           row |-> (IF symbol = <<>> THEN <<"undefined">> ELSE symbol)
                     \o ToFixed(amount, IF places = <<>> THEN 0 ELSE places[1])]

\* currencies[code]
getCurrency(code) ==
  IF Lookup(code) = <<>> THEN Undefined ELSE [tag |-> "object", row |-> Lookup(code)]
\* currencies[currencyCode]?.countryCode
getCurrencyCountryCode(currencyCode) ==
  LET countryCode == Property(Lookup(currencyCode), "countryCode")
  IN IF countryCode = <<>> THEN Undefined ELSE [tag |-> "string", row |-> countryCode]
\* hasFlag(countryCode) of the country-flag-icons package
FlagCountries == {"CN", "US", "KR"}
hasFlag(countryCode) == countryCode \in FlagCountries
hasCurrencyFlag(currencyCode) ==
  LET countryCode == getCurrencyCountryCode(currencyCode)
  IN [tag |-> "boolean",
      row |-> <<IF countryCode.tag = "string" THEN hasFlag(countryCode.row[1]) ELSE FALSE>>]
FlagSizes == {"3x2", "1x1"}
getCurrencyFlagUrl(currencyCode, size) ==
  LET countryCode == getCurrencyCountryCode(currencyCode)
  IN IF countryCode.tag # "string" \/ ~hasFlag(countryCode.row[1]) THEN Undefined
     ELSE [tag |-> "string",
           row |-> <<"https://purecatamphetamine.github.io/country-flag-icons/",
                     size, "/", countryCode.row[1], ".svg">>]

\* the amounts callers pass: decimal literals (-1)^neg * n / 10^d, read as the
\* nearest double, and storage integers up to Number.MAX_SAFE_INTEGER - 198
Decimal(neg, n, d) == [neg |-> neg, n |-> n, d |-> d]
Literals ==
  {Decimal(FALSE, 13678, 2), Decimal(FALSE, 9999, 2), Decimal(FALSE, 1000, 0),
   Decimal(FALSE, 10005, 3), Decimal(FALSE, 10004, 3), Decimal(FALSE, 1005, 3),
   Decimal(FALSE, 0, 0), Decimal(FALSE, 5, 1), Decimal(TRUE, 5, 1),
   Decimal(TRUE, 255, 1), Decimal(TRUE, 125, 3), Decimal(FALSE, 1, 2)}
Literal(l) == Nearest(l.neg, Bits(l.n), Power(10, l.d))
LargeStorage == [i \in 1..45 |-> 1] \o <<0, 0, 1, 1, 1, 0, 0, 1>>
StorageInputs ==
  {Integer(FALSE, Bits(13678)), Integer(FALSE, Bits(9999)), Integer(FALSE, Bits(1000)),
   Integer(FALSE, <<>>), Integer(FALSE, Bits(1)), Integer(TRUE, Bits(2550)),
   Integer(FALSE, LargeStorage), Integer(TRUE, LargeStorage)}

CurrencyCall(c, op, data, res) ==
  /\ Free(c)
  /\ rc' = [rc EXCEPT ![c] = [Finished(op, Null, res) EXCEPT !.data = data]]
  /\ UNCHANGED <<bootVars, sideVars, Entity, rows, nextId, transactions, now>>
CodeOnly(code) == [code |-> code, amount |-> <<>>, literal |-> <<>>]
GetCurrencyMultiplierCall(c, code) ==
  CurrencyCall(c, "getCurrencyMultiplier", CodeOnly(code), getCurrencyMultiplier(code))
GetCurrencyCall(c, code) ==
  CurrencyCall(c, "getCurrency", CodeOnly(code), getCurrency(code))
GetCurrencyCountryCodeCall(c, code) ==
  CurrencyCall(c, "getCurrencyCountryCode", CodeOnly(code), getCurrencyCountryCode(code))
HasCurrencyFlagCall(c, code) ==
  CurrencyCall(c, "hasCurrencyFlag", CodeOnly(code), hasCurrencyFlag(code))
GetCurrencyFlagUrlCall(c, code, size) ==
  CurrencyCall(c, "getCurrencyFlagUrl", CodeOnly(code), getCurrencyFlagUrl(code, size))
ToStorageAmountCall(c, l, code) ==
  CurrencyCall(c, "toStorageAmount",
               [code |-> code, amount |-> <<Literal(l)>>, literal |-> <<l>>],
               toStorageAmount(Literal(l), code))
ToDisplayAmountCall(c, n, code) ==
  CurrencyCall(c, "toDisplayAmount",
               [code |-> code, amount |-> <<n>>, literal |-> <<>>],
               toDisplayAmount(n, code))
FormatCurrencyCall(c, l, code) ==
  CurrencyCall(c, "formatCurrency",
               [code |-> code, amount |-> <<Literal(l)>>, literal |-> <<l>>],
               formatCurrency(Literal(l), code))
\* the caller converts what it got back, with the same code
ConvertBack(c) ==
  /\ rc[c].pc = "done" /\ rc[c].before = <<>> /\ IsNumber(rc[c].res)
  /\ \/ /\ rc[c].op = "toStorageAmount"
        /\ rc' = [rc EXCEPT ![c] =
                    [Finished("toDisplayAmount", Null,
                              toDisplayAmount(rc[c].res.row[1], rc[c].data.code))
                       EXCEPT !.data = [code |-> rc[c].data.code, amount |-> rc[c].res.row,
                                        literal |-> <<>>],
                              !.before = <<rc[c].data>>]]
     \/ /\ rc[c].op = "toDisplayAmount"
        /\ rc' = [rc EXCEPT ![c] =
                    [Finished("toStorageAmount", Null,
                              toStorageAmount(rc[c].res.row[1], rc[c].data.code))
                       EXCEPT !.data = [code |-> rc[c].data.code, amount |-> rc[c].res.row,
                                        literal |-> <<>>],
                              !.before = <<rc[c].data>>]]
  /\ UNCHANGED <<bootVars, sideVars, Entity, rows, nextId, transactions, now>>

InitCurrency == BootInit /\ platform = "web" /\ Entity = "Transaction" /\ RepoIdle
NextCurrency ==
  \/ \E c \in Callers, code \in CodeInputs : GetCurrencyMultiplierCall(c, code)
  \/ \E c \in Callers, code \in CodeInputs : GetCurrencyCall(c, code)
  \/ \E c \in Callers, code \in CodeInputs : GetCurrencyCountryCodeCall(c, code)
  \/ \E c \in Callers, code \in CodeInputs : HasCurrencyFlagCall(c, code)
  \/ \E c \in Callers, code \in CodeInputs, size \in FlagSizes :
       GetCurrencyFlagUrlCall(c, code, size)
  \/ \E c \in Callers, l \in Literals, code \in CodeInputs : ToStorageAmountCall(c, l, code)
  \/ \E c \in Callers, n \in StorageInputs, code \in CodeInputs :
       ToDisplayAmountCall(c, n, code)
  \/ \E c \in Callers, l \in Literals, code \in CodeInputs : FormatCurrencyCall(c, l, code)
  \/ \E c \in Callers : ConvertBack(c)
  \/ \E c \in Callers : RepoReturn(c)
SpecCurrency == InitCurrency /\ [][NextCurrency]_vars

\* the first call of a caller that converted back, and what the claims speak of
Converted(c, op) == rc[c].pc = "done" /\ rc[c].op = op /\ rc[c].before # <<>>
Registered(c) == rc[c].data.code \in CurrencyCodes
DecimalPlaces(code) == currencies[code].decimalPlaces

\* C17: for every registered currency code and every amount x with at most
\* decimalPlaces(code) fractional digits, toDisplayAmount(toStorageAmount(x, code),
\* code) = x, and for every integer n, toStorageAmount(toDisplayAmount(n, code),
\* code) = n.
C17_RoundTrip ==
  \A c \in Callers :
    /\ (/\ Converted(c, "toDisplayAmount") /\ Registered(c)
        /\ rc[c].before[1].literal[1].d <= DecimalPlaces(rc[c].data.code))
         => rc[c].res = Number(rc[c].before[1].amount[1])
    /\ (Converted(c, "toStorageAmount") /\ Registered(c))
         => rc[c].res = Number(rc[c].before[1].amount[1])

\* amount * 10^places rounded to the nearest integer, a tie away from zero
HalfAwayFromZero(l, places) ==
  LET scaled == l.n * Power(10, places)
      unit   == Power(10, l.d)
      whole  == scaled \div unit
  IN Integer(l.neg, Bits(IF 2 * (scaled % unit) >= unit THEN whole + 1 ELSE whole))
\* C18: toStorageAmount(amount, code) returns amount * 10^decimalPlaces(code)
\* rounded to the nearest integer, ties away from zero, for positive and negative
\* amounts: 10.005 CNY gives 1001, 10.004 CNY gives 1000, -0.5 KRW gives -1.
C18_RoundsHalfAwayFromZero ==
  \A c \in Callers :
    (/\ rc[c].pc = "done" /\ rc[c].op = "toStorageAmount" /\ rc[c].before = <<>>
     /\ Registered(c))
      => rc[c].res = Number(HalfAwayFromZero(rc[c].data.literal[1],
                                             DecimalPlaces(rc[c].data.code)))

CodeFunctions ==
  {"getCurrencyMultiplier", "toStorageAmount", "toDisplayAmount", "formatCurrency",
   "getCurrency", "getCurrencyCountryCode", "hasCurrencyFlag", "getCurrencyFlagUrl"}
Unregistered(c) ==
  rc[c].pc = "done" /\ rc[c].op \in CodeFunctions /\ rc[c].data.code \notin CurrencyCodes
ExpenseAmounts == {10, 20}
ExpenseInputs == {[amount |-> a, description |-> "Lunch"] : a \in ExpenseAmounts}
\* the store's entry of an entity: its id, Number(amount) of an amount that is a
\* number already, and its other fields
StoreEntry(id, cols) ==
  [id |-> id, amount |-> cols.amount, description |-> cols.description]
\* expenses.value.reduce((sum, expense) => sum + expense.amount, 0)
RECURSIVE SumOf(_)
SumOf(list) == IF list = <<>> THEN 0 ELSE SumOf(Front(list)) + list[Len(list)].amount
totalExpenses == SumOf(store.expenses)

\* a call of another caller is between its start and its resumption
StoreBusy(c) == \E d \in Callers \ {c} : sc[d].pc \in {"calling", "settled"}
Begun(c) == [storeLog EXCEPT !.sequential = @ /\ ~StoreBusy(c)]
StoreDone(op, outcome) ==
  [IdleStoreCaller EXCEPT !.pc = "done", !.op = op, !.outcome = outcome]
\* the rows the adds in flight will still insert fit into the table
Room(c) ==
  nextId + Cardinality({d \in Callers : sc[d].pc = "calling" /\ sc[d].op = "addExpense"})
    <= MaxRows

\* a store function up to its first await: the early return when
\* isDatabaseInitialized() is false; getExpenseService() throwing into the catch
\* (isLoading is set and reset); else the service method is called
StoreCall(c, op, arg) ==
  /\ sc[c].pc = "idle"
  /\ IF ~isDatabaseInitialized
       THEN /\ sc' = [sc EXCEPT ![c] = StoreDone(op, "skipped")]
            /\ UNCHANGED <<store, storeLog>>
       ELSE IF AccessorThrows("expense")
         THEN /\ store' = [store EXCEPT !.isLoading = FALSE]
              /\ sc' = [sc EXCEPT ![c] = StoreDone(op, "failed")]
              /\ UNCHANGED storeLog
         ELSE /\ store' = [store EXCEPT !.isLoading = TRUE]
              /\ sc' = [sc EXCEPT ![c] =
                          [IdleStoreCaller EXCEPT !.pc = "calling", !.op = op, !.arg = arg]]
              /\ storeLog' = Begun(c)
  /\ UNCHANGED <<bootVars, tagRows, transactionTags, Entity, rows, nextId, transactions,
                 now, rc>>
\* stores/expense.ts:55-81  addExpense(expense)
AddExpense(c, expense) == Room(c) /\ StoreCall(c, "addExpense", <<expense>>)
\* stores/expense.ts:88-104  removeExpense(id)
RemoveExpense(c, id) == KeyKnown(id) /\ StoreCall(c, "removeExpense", <<id>>)
\* stores/expense.ts:25-50  loadExpenses()
LoadExpenses(c) == StoreCall(c, "loadExpenses", <<>>)

\* the service method runs in the database; it throws when the service's engine
\* is not connected
Settle(c, res) ==
  sc' = [sc EXCEPT ![c].pc = "settled",
                   ![c].outcome = IF ServiceUsable("expense") THEN "returned" ELSE "threw",
                   ![c].res = IF ServiceUsable("expense") THEN res ELSE <<>>]
\* expenseService.createExpense(data): BaseCRUDService.create
ExpenseCreate(c) ==
  /\ sc[c].pc = "calling" /\ sc[c].op = "addExpense"
  /\ Settle(c, <<[id |-> nextId, cols |-> sc[c].arg[1]]>>)
  /\ IF ServiceUsable("expense")
       THEN /\ rows' = [id \in DOMAIN rows \cup {nextId} |->
                          IF id = nextId THEN sc[c].arg[1] ELSE rows[id]]
            /\ nextId' = nextId + 1
            /\ storeLog' = [storeLog EXCEPT !.added = @ \cup {StoreEntry(nextId, sc[c].arg[1])}]
       ELSE UNCHANGED <<rows, nextId, storeLog>>
  /\ UNCHANGED <<bootVars, tagRows, transactionTags, store, Entity, transactions, now, rc>>
\* expenseService.delete(id): BaseCRUDService.delete, true when a row went
ExpenseDelete(c) ==
  /\ sc[c].pc = "calling" /\ sc[c].op = "removeExpense"
  /\ Settle(c, <<Affected(sc[c].arg[1]) > 0>>)
  /\ IF ServiceUsable("expense")
       THEN /\ rows' = [id \in DOMAIN rows \ {sc[c].arg[1]} |-> rows[id]]
            /\ storeLog' = [storeLog EXCEPT !.removed = @ \cup {sc[c].arg[1]}]
       ELSE UNCHANGED <<rows, storeLog>>
  /\ UNCHANGED <<bootVars, tagRows, transactionTags, store, Entity, nextId, transactions,
                 now, rc>>
\* expenseService.findAll(): the rows in the order of their ids
RECURSIVE RowList(_)
RowList(n) ==
  IF n = 0 THEN <<>>
  ELSE RowList(n - 1) \o (IF n \in DOMAIN rows THEN <<[id |-> n, cols |-> rows[n]]>> ELSE <<>>)
ExpenseFindAll(c) ==
  /\ sc[c].pc = "calling" /\ sc[c].op = "loadExpenses"
  /\ Settle(c, <<RowList(nextId - 1)>>)
  /\ UNCHANGED <<bootVars, tagRows, transactionTags, store, storeLog, Entity, rows, nextId,
                 transactions, now, rc>>

\* expenses.value.filter(expense => expense.id !== id)
Kept_All(expense, id) == TRUE
Kept(expense, id) == expense.id # id
\* the function resumes with what the service returned: the entry is pushed, the
\* list filtered or replaced; a throw goes to the catch; finally isLoading = false
StoreResume(c) ==
  /\ sc[c].pc = "settled"
  /\ store' =
       IF sc[c].outcome = "threw" THEN [store EXCEPT !.isLoading = FALSE]
       ELSE IF sc[c].op = "addExpense"
         THEN [store EXCEPT !.isLoading = FALSE,
                            !.expenses = Append(@, StoreEntry(sc[c].res[1].id,
                                                                sc[c].res[1].cols))]
       ELSE IF sc[c].op = "removeExpense"
         THEN [store EXCEPT !.isLoading = FALSE,
                            !.expenses = SelectSeq(@, LAMBDA e : Kept(e, sc[c].arg[1]))]
       ELSE [store EXCEPT !.isLoading = FALSE, !.isInitialized = TRUE,
                          !.expenses = [i \in 1..Len(sc[c].res[1]) |->
                                          StoreEntry(sc[c].res[1][i].id, sc[c].res[1][i].cols)]]
  /\ storeLog' = [storeLog EXCEPT !.loaded =
                    @ \/ (sc[c].op = "loadExpenses" /\ sc[c].outcome = "returned")]
  /\ sc' = [sc EXCEPT ![c].pc = "done"]
  /\ UNCHANGED <<bootVars, tagRows, transactionTags, Entity, rows, nextId, transactions,
                 now, rc>>
\* the caller takes note and is free for its next call
StoreReturn(c) ==
  /\ sc[c].pc = "done"
  /\ sc' = [sc EXCEPT ![c] = IdleStoreCaller]
  /\ UNCHANGED <<bootVars, tagRows, transactionTags, store, storeLog, Entity, rows, nextId,
                 transactions, now, rc>>

\* the application initializes the database once, in the browser, while the store
\* is in use
InitStore == BootInit /\ platform = "web" /\ Entity = "Expense" /\ RepoIdle
NextStore ==
  \/ InitCall("c1")
  \/ \E a \in AttemptIds : AttemptLoad(a)
  \/ \E a \in AttemptIds : AttemptConstruct(a)
  \/ \E a \in AttemptIds : AttemptOpen(a)
  \/ \E a \in AttemptIds : AttemptCache(a)
  \/ InitReturn("c1")
  \/ \E c \in Callers, expense \in ExpenseInputs : AddExpense(c, expense)
  \/ \E c \in Callers, id \in Keys : RemoveExpense(c, id)
  \/ \E c \in Callers : LoadExpenses(c)
  \/ \E c \in Callers : ExpenseCreate(c)
  \/ \E c \in Callers : ExpenseDelete(c)
  \/ \E c \in Callers : ExpenseFindAll(c)
  \/ \E c \in Callers : StoreResume(c)
  \/ \E c \in Callers : StoreReturn(c)
SpecStore == InitStore /\ [][NextStore]_vars

\* no call of the store is under way, none overlapped another, none loaded
Quiescent == \A c \in Callers : sc[c].pc \in {"idle", "done"}
AddedNotRemoved == {e \in storeLog.added : e.id \notin storeLog.removed}
RECURSIVE SetSum(_)
SetSum(entries) ==
  IF entries = {} THEN 0
  ELSE LET e == CHOOSE x \in entries : TRUE IN e.amount + SetSum(entries \ {e})
StoreAsClaimed ==
  (Quiescent /\ storeLog.sequential /\ ~storeLog.loaded) =>
    /\ {store.expenses[i] : i \in 1..Len(store.expenses)} = AddedNotRemoved
    /\ Len(store.expenses) = Cardinality(AddedNotRemoved)
    /\ totalExpenses = SetSum(AddedNotRemoved)
AttemptsInFlight == {a \in AttemptIds : AttemptInFlight(a)}
C21_OneInitInFlight == Cardinality(AttemptsInFlight) <= 1

\* no initializeDatabase, closeDatabase or importDatabase call is under way
BootQuiescent ==
  NoAttemptInFlight /\ \A c \in Callers : callers[c].pc \in {"idle", "done"}
\* C22: once every in-flight initializeDatabase/closeDatabase/importDatabase call
\* has completed, either the engine handle is set and initialized and all seven
\* repositories are cached and bound to that engine, or the handle and all seven
\* repositories are null.
C22_HandlesReplacedWholesale ==
  BootQuiescent =>
    \/ /\ IsInitialized
       /\ \A s \in ServiceNames : ~AccessorThrows(s) /\ services[s].engine = dataSource
    \/ dataSource = Null /\ ServicesCleared

\* C23: importDatabase writes the blob to the persistence target of the current
\* platform in every Bootstrap state: on a native platform through the native
\* engine's import, never into the browser key-value store, on the browser into the
\* key-value entry that initialization reads; the order is write, then full
\* teardown, then re-initialization.
C23_ImportWritesPlatformTarget ==
  [][\A c \in Callers :
       /\ (callers[c].pc = "imp_write" /\ callers'[c].pc \in {"imp_destroy", "imp_init"}) =>
            IF platform = "native"
              THEN nativeDb' = callers[c].blob /\ kv' = kv
              ELSE kv' = <<callers[c].blob>> /\ nativeDb' = nativeDb
       /\ (callers[c].pc # "imp_init" /\ callers'[c].pc = "imp_init") =>
            /\ callers[c].pc \in {"imp_write", "imp_destroyed"}
            /\ dataSource' = Null /\ ServicesCleared'
            /\ attempts'[callers'[c].att].pc = "options"
    ]_vars

\* ------------------------------------------------------------ exportDatabase
\* index.ts:234-239  exportDatabase(), up to its first await: it throws unless the
\* engine is initialized, and picks its source by the test importDatabase uses
ExportCall(c) ==
  /\ callers[c].pc = "idle"
  /\ IF IsInitialized
       THEN callers' = StartCall(c, [IdleCaller EXCEPT !.pc = "exp_read", !.op = "export",
                                                       !.path = ImportPath])
       ELSE callers' = StartCall(c, [IdleCaller EXCEPT !.pc = "done", !.op = "export",
                                                       !.res = "err"])
  /\ UNCHANGED <<platform, dataSource, services, initPromise, sqliteConnection, attempts,
                 nextAttempt, engInit, engDb, kv, kvPending, nativeDb, resetSeen, repoVars>>

\* index.ts:241-253  the read: exportToJson of the native database, or getItem of
\* the key-value entry (null when the entry is absent); the caller keeps what the
\* cached expense repository holds at that moment
ExportRead(c) ==
  /\ callers[c].pc = "exp_read"
  /\ callers[c].path = "kv" => kvPending = <<>>
  /\ LET data == IF callers[c].path = "native" THEN <<nativeDb>> ELSE kv
     IN callers' = [callers EXCEPT ![c] =
          [Done(c, IF data = <<>> THEN "null" ELSE "ok") EXCEPT
             !.blob = IF data = <<>> THEN {} ELSE data[1],
             !.path = callers[c].path,
             !.pre = FindAll("expense")]]
  /\ UNCHANGED <<platform, dataSource, services, initPromise, sqliteConnection, attempts,
                 nextAttempt, engInit, engDb, kv, kvPending, nativeDb, resetSeen, repoVars>>

NextExport ==
  \/ \E c \in Callers : InitCall(c)
  \/ \E a \in AttemptIds : AttemptLoad(a)
  \/ \E a \in AttemptIds : AttemptConstruct(a)
  \/ \E a \in AttemptIds : AttemptOpen(a)
  \/ \E a \in AttemptIds : AttemptCache(a)
  \/ \E c \in Callers : InitReturn(c)
  \/ \E c \in Callers : CloseCall(c)
  \/ \E c \in Callers : CloseDestroy(c)
  \/ \E c \in Callers : CloseAfterDestroy(c)
  \/ \E c \in Callers : CloseConns(c)
  \/ \E c \in Callers, blob \in Contents : ImportCall(c, blob)
  \/ \E c \in Callers : ImportWrite(c)
  \/ \E c \in Callers : ImportDestroy(c)
  \/ \E c \in Callers : ImportAfterDestroy(c)
  \/ \E c \in Callers : ImportReturn(c)
  \/ \E c \in Callers, r \in RowIds : RepoCreate(c, r)
  \/ \E c \in Callers, r \in RowIds : RepoDelete(c, r)
  \/ KvApply
  \/ \E c \in Callers : ExportCall(c)
  \/ \E c \in Callers : ExportRead(c)
  \/ \E c \in Callers : Return(c)

SpecExport == Init /\ [][NextExport]_vars

\* an export that returned: what it returned and what the repositories held
Exported(c) == callers[c].pc = "done" /\ callers[c].op = "export" /\ callers[c].res # "err"
\* C24: exportDatabase returns a snapshot that contains every repository write
\* committed before the export performs its read, on both platforms: what it
\* returns is what the repositories of the running application hold at the read,
\* on the browser too, where the autosave write is not awaited.
C24_ExportHasCommittedWrites ==
  \A c \in Callers :
    (Exported(c) /\ callers[c].pre.ok) => callers[c].blob = callers[c].pre.rows

\* ------------------------------------------ account balances: concurrent calls
\* two adjustBalance calls on one account that have both written, each having
\* read the same balance: both reads came before either write
BothReadFirst(c, o) ==
  /\ c # o
  /\ rc[c].op = "adjustBalance" /\ rc[o].op = "adjustBalance"
  /\ rc[c].pc \in {"written", "done"} /\ rc[o].pc \in {"written", "done"}
  /\ rc[c].key = rc[o].key /\ rc[c].key \in DOMAIN rows
  /\ rc[c].before = rc[o].before
\* C25: adjustBalance is not protected against concurrent calls on one account:
\* when two calls adjustBalance(A, d1) and adjustBalance(A, d2) both read the
\* balance b before either writes, the final balance is b + d1 or b + d2 (one
\* update is lost) and neither call reports an error: each returns the account.
C25_LostUpdate ==
  \A c, o \in Callers :
    BothReadFirst(c, o) =>
      /\ rows[rc[c].key].currentBalance \in
           {rc[c].before[1] + rc[c].data.adjustment, rc[o].before[1] + rc[o].data.adjustment}
      /\ rc[c].pc = "done" => rc[c].res.tag = "entity"
C25_Witness ==
  \E c, o \in Callers :
    /\ BothReadFirst(c, o)
    /\ rc[c].pc = "done" /\ rc[c].res.tag = "entity"
    /\ rc[c].data.adjustment # rc[o].data.adjustment
    /\ rows[rc[c].key].currentBalance #
         rc[c].before[1] + rc[c].data.adjustment + rc[o].data.adjustment

\* ------------------------------------------------------ tags: concurrent calls
\* the rows whose insert came from a findOrCreate that another findOrCreate of the
\* same name overlapped between its lookup and its insert: both lookups found nothing
RacedTags == {id \in DOMAIN rows : ~rows[id].solo}
\* C26: findOrCreate is a check-then-act sequence with no uniqueness constraint
\* behind it: when the lookups of two concurrent findOrCreate(name) calls both
\* return nothing, both calls go on to create; nothing in storage rejects the second
\* insert, so the tags table ends with two rows of that name, and each caller gets
\* the row it inserted, under an id of its own.
C26_RacingCallsBothInsert ==
  /\ \A id \in RacedTags :
       \/ \E other \in DOMAIN rows \ {id} : rows[other].name = rows[id].name
       \/ \E o \in Callers : rc[o].pc = "missing" /\ rc[o].data.name = rows[id].name
  /\ \A c \in Callers :
       (rc[c].pc = "done" /\ rc[c].op = "findOrCreate" /\ ~rc[c].clean) =>
         /\ rc[c].res.tag = "entity" /\ rc[c].res.row[1].id = rc[c].key
         /\ rc[c].key \in RacedTags /\ rows[rc[c].key].name = rc[c].data.name
C26_Witness ==
  \E c \in Callers, first \in RacedTags :
    /\ rc[c].pc = "done" /\ rc[c].op = "findOrCreate" /\ ~rc[c].clean
    /\ first # rc[c].key /\ rows[first].name = rows[rc[c].key].name
    /\ \A id \in DOMAIN rows \ {first, rc[c].key} : rows[id].name # rows[first].name

\* ================================================== balances and transactions
\* The accounts table (rows) next to the transactions table (transactions), with
\* the operations of AccountService and of TransactionService on them.
\* repository.create(data) + save on the accounts table: the balances given (0 by
\* default), the account active and included in the total
OpeningData == {[initialBalance |-> <<2>>, currentBalance |-> <<>>],
                [initialBalance |-> <<>>, currentBalance |-> <<1>>]}
LedgerAccount(data) ==
  [isActive |-> TRUE, includeInTotal |-> TRUE, ledgerId |-> "L1", currency |-> "CNY",
   initialBalance |-> IF data.initialBalance = <<>> THEN 0 ELSE data.initialBalance[1],
   currentBalance |-> IF data.currentBalance = <<>> THEN 0 ELSE data.currentBalance[1],
   updatedAt |-> now]

\* AccountService.createAccount(data) on the full account row
CreateLedgerAccount(c, data) ==
  /\ Free(c) /\ nextId <= MaxAccounts
  /\ rows' = [id \in DOMAIN rows \cup {nextId} |->
                IF id = nextId THEN LedgerAccount(WithCurrentBalance(data)) ELSE rows[id]]
  /\ nextId' = nextId + 1
  /\ rc' = [rc EXCEPT ![c] =
              Finished("createAccount", nextId,
                       [tag |-> "entity",
                        row |-> <<[id |-> nextId,
                                   cols |-> LedgerAccount(WithCurrentBalance(data))]>>])]
  /\ UNCHANGED <<bootVars, sideVars, Entity, transactions, now>>

\* AccountService.updateBalance(id, newBalance): this.update(id, { currentBalance })
UpdateBalance(c, k, newBalance) ==
  UpdateWrite(c, k, [op |-> "updateBalance", data |-> [currentBalance |-> newBalance]])

\* AccountService.getTotalBalance(ledgerId, currency): SUM(currentBalance) over the
\* active accounts of the ledger and currency that are included in the total, null
\* over no row, then parseInt(result?.total ?? '0', 10)
RECURSIVE SumBalances(_)
SumBalances(ids) ==
  IF ids = {} THEN 0
  ELSE LET id == CHOOSE i \in ids : TRUE
       IN rows[id].currentBalance + SumBalances(ids \ {id})
getTotalBalance(ledgerId, currency) ==
  LET ids == {id \in DOMAIN rows :
                /\ rows[id].ledgerId = ledgerId /\ rows[id].currency = currency
                /\ rows[id].isActive /\ rows[id].includeInTotal}
  IN parseInt(IF ids = {} THEN <<"0">> ELSE NumberString(SumBalances(ids)))

\* the queries of AccountService: they read the table and write nothing
AccountQuery(c, op, res) ==
  /\ Free(c)
  /\ rc' = [rc EXCEPT ![c] = Finished(op, Null, res)]
  /\ UNCHANGED <<bootVars, sideVars, Entity, rows, nextId, transactions, now>>
GetTotalBalanceCall(c, ledgerId, currency) ==
  AccountQuery(c, "getTotalBalance", getTotalBalance(ledgerId, currency))
FindAccountsCall(c, ledgerId) ==
  \/ AccountQuery(c, "findByLedgerId", [tag |-> "list", row |-> <<findByLedgerId(ledgerId)>>])
  \/ AccountQuery(c, "findAccountsIncludedInTotal",
                  [tag |-> "list", row |-> <<findAccountsIncludedInTotal(ledgerId)>>])
  \/ \E cur \in Currencies :
       AccountQuery(c, "findByCurrency",
                    [tag |-> "list", row |-> <<findByCurrency(ledgerId, cur)>>])

\* ---- TransactionService on the transactions table
TxIds == 1..MaxTx
TxAmounts == {5}
\* the row createTransaction inserts for a transaction out of account k
PostedRow(k, amount) ==
  [fromAccountId |-> k, isMarked |-> FALSE, needsReview |-> FALSE]
    @@ NewTransaction([amount |-> amount, currency |-> "CNY", transactionDate |-> 1,
                       ledgerId |-> "L1"])
TxResult(t) ==
  IF t \in DOMAIN transactions
    THEN [tag |-> "entity", row |-> <<[id |-> t, cols |-> transactions[t]]>>]
    ELSE NullResult

\* TransactionService.createTransaction(data): this.create(data), one insert into
\* the transactions table
CreateTransactionOn(c, k, amount) ==
  /\ Free(c) /\ k \in DOMAIN rows
  /\ \E t \in TxIds :
       /\ t \notin DOMAIN transactions
       /\ \A u \in TxIds : u < t => u \in DOMAIN transactions
       /\ transactions' = [id \in DOMAIN transactions \cup {t} |->
                             IF id = t THEN PostedRow(k, amount) ELSE transactions[id]]
       /\ rc' = [rc EXCEPT ![c] =
                   Finished("createTransaction", t,
                            [tag |-> "entity",
                             row |-> <<[id |-> t, cols |-> PostedRow(k, amount)]>>])]
  /\ UNCHANGED <<bootVars, sideVars, Entity, rows, nextId, now>>

\* the partial data of the transaction updates: a generic update of the amount, and
\* voidTransaction
TxPartials ==
  {[op |-> "update", data |-> [amount |-> 7]],
   [op |-> "voidTransaction", data |-> VoidPartial]}

\* BaseCRUDService.update on the transaction service, first await:
\* repository.update(key, data)
TxWrite(c, t, op, data) ==
  /\ transactions' =
       IF t \in DOMAIN transactions
         THEN [transactions EXCEPT ![t] = [Merge(transactions[t], data) EXCEPT !.updatedAt = now]]
         ELSE transactions
  /\ rc' = [rc EXCEPT ![c] = [IdleRepoCaller EXCEPT !.pc = "tx_written", !.op = op,
                                                    !.key = t, !.data = data]]
  /\ UNCHANGED <<bootVars, sideVars, Entity, rows, nextId, now>>
TxUpdate(c, t, p) == Free(c) /\ t \in TxIds /\ TxWrite(c, t, p.op, p.data)

\* BaseCRUDService.update, second await: return this.findById(primaryKey)
TxReread(c) ==
  /\ rc[c].pc = "tx_written" /\ \A d \in Callers : rc[d].pc # "done"
  /\ rc' = [rc EXCEPT ![c].pc = "done", ![c].res = TxResult(rc[c].key)]
  /\ UNCHANGED <<bootVars, sideVars, Entity, rows, nextId, transactions, now>>

\* toggleMarked / toggleNeedsReview, first await: const transaction = await
\* this.findById(id); if (!transaction) return null
Toggles == [toggleMarked |-> "isMarked", toggleNeedsReview |-> "needsReview"]
ToggleRead(c, t, op) ==
  /\ Free(c) /\ t \in TxIds
  /\ IF t \in DOMAIN transactions
       THEN rc' = [rc EXCEPT ![c] =
                     [IdleRepoCaller EXCEPT !.pc = "tx_read", !.op = op, !.key = t,
                                            !.before = <<transactions[t][Toggles[op]]>>]]
       ELSE rc' = [rc EXCEPT ![c] = Finished(op, t, NullResult)]
  /\ UNCHANGED <<bootVars, sideVars, Entity, rows, nextId, transactions, now>>
\* return this.update(id, { isMarked: !transaction.isMarked })
ToggleWrite(c) ==
  /\ rc[c].pc = "tx_read"
  /\ TxWrite(c, rc[c].key, rc[c].op,
             IF rc[c].op = "toggleMarked" THEN [isMarked |-> ~rc[c].before[1]]
                                          ELSE [needsReview |-> ~rc[c].before[1]])

\* BaseCRUDService.delete(primaryKey) on the transaction service
TxDelete(c, t) ==
  /\ Free(c) /\ t \in TxIds
  /\ transactions' = [id \in DOMAIN transactions \ {t} |-> transactions[id]]
  /\ rc' = [rc EXCEPT ![c] =
              Finished("delete", t,
                       [tag |-> IF t \in DOMAIN transactions THEN "true" ELSE "false",
                        row |-> <<>>])]
  /\ UNCHANGED <<bootVars, sideVars, Entity, rows, nextId, now>>

InitBalance == BootInit /\ platform = "web" /\ Entity = "Account" /\ RepoIdle
NextBalance ==
  \/ \E c \in Callers, data \in OpeningData : CreateLedgerAccount(c, data)
  \/ \E c \in Callers, k \in Keys, v \in {0} : UpdateBalance(c, k, v)
  \/ \E c \in Callers, k \in Keys, p \in Partials : UpdateWrite(c, k, p)
  \/ \E c \in Callers : UpdateReread(c)
  \/ \E c \in Callers, k \in Keys : FindByIdCall(c, k)
  \/ \E c \in Callers, l \in LedgerIds : FindAccountsCall(c, l)
  \/ \E c \in Callers, l \in LedgerIds, cur \in Currencies : GetTotalBalanceCall(c, l, cur)
  \/ \E c \in Callers, k \in Keys, amount \in TxAmounts : CreateTransactionOn(c, k, amount)
  \/ \E c \in Callers, t \in TxIds, p \in TxPartials : TxUpdate(c, t, p)
  \/ \E c \in Callers : TxReread(c)
  \/ \E c \in Callers, t \in TxIds, op \in DOMAIN Toggles : ToggleRead(c, t, op)
  \/ \E c \in Callers : ToggleWrite(c)
  \/ \E c \in Callers, t \in TxIds : TxDelete(c, t)
  \/ \E c \in Callers : RepoReturn(c)
SpecBalance == InitBalance /\ [][NextBalance]_vars

\* the operations the claim names: those of TransactionService, and those of
\* AccountService that are not given a balance to write
BalanceNeutralOps ==
  {"createTransaction", "update", "voidTransaction", "toggleMarked", "toggleNeedsReview",
   "delete", "archive", "restore", "findById", "findByLedgerId", "findByCurrency",
   "findAccountsIncludedInTotal", "getTotalBalance"}
\* this step is a step of such an operation (its call, or one of its later awaits)
NeutralStep ==
  \E c \in Callers : rc'[c].pc # rc[c].pc /\ rc'[c].op \in BalanceNeutralOps
\* C27: the storage layer never recomputes a balance: every step of a
\* TransactionService operation (createTransaction, update, voidTransaction,
\* toggleMarked, toggleNeedsReview, delete) and of an account operation other than
\* updateBalance, adjustBalance and an update naming currentBalance (archive,
\* restore, the queries, getTotalBalance) leaves the accounts in place, each with
\* the currentBalance and the initialBalance it had.
C27_BalancesNeverRecomputed ==
  [][NeutralStep =>
       /\ DOMAIN rows' = DOMAIN rows
       /\ \A k \in DOMAIN rows :
            /\ rows'[k].currentBalance = rows[k].currentBalance
            /\ rows'[k].initialBalance = rows[k].initialBalance
    ]_vars
\* a transaction of amount 5 out of an account has been entered, toggled and
\* voided, and the account still shows the balance 2 it was opened with
C27_Witness ==
  \E c \in Callers, t \in DOMAIN transactions :
    /\ rc[c].pc = "done" /\ rc[c].op = "toggleMarked" /\ rc[c].key = t
    /\ transactions[t].status = "voided" /\ transactions[t].isMarked
    /\ transactions[t].fromAccountId \in DOMAIN rows
    /\ ~rows[transactions[t].fromAccountId].isActive
    /\ rows[transactions[t].fromAccountId].currentBalance = 2
    /\ rows[transactions[t].fromAccountId].initialBalance = 2

\* C28: isDatabaseInitialized() and the accessors agree in every reachable state:
\* when it returns true every get<Entity>Service() and getDataSource() return
\* without throwing, and when it returns false every accessor throws; there is no
\* point between the engine finishing its open and the repositories being cached
\* where the store reports initialized = true but an accessor fails.
C28_InitializedAgreesWithAccessors ==
  IF isDatabaseInitialized
    THEN ~getDataSourceThrows /\ \A s \in ServiceNames : ~AccessorThrows(s)
    ELSE getDataSourceThrows /\ \A s \in ServiceNames : AccessorThrows(s)

\* ------------------------------------------------------ categories: the tree
\* the category reached from id by following parentId n times (Null once a root
\* has been passed)
RECURSIVE Up(_, _)
Up(id, n) == IF n = 0 \/ id = Null THEN id ELSE Up(rows[id].parentId, n - 1)
\* C29: after any sequence of createCategory and moveToParent calls the parent
\* relation is a forest: every non-null parentId names an existing category of the
\* same ledger, no category is its own parent or ancestor, and following parentId
\* from any category reaches a root.
C29_ParentsFormForest ==
  Entity = "Category" =>
    /\ \A id \in DOMAIN rows :
         rows[id].parentId # Null =>
           /\ rows[id].parentId \in DOMAIN rows
           /\ rows[rows[id].parentId].ledgerId = rows[id].ledgerId
    /\ (\A id \in DOMAIN rows : rows[id].parentId \in DOMAIN rows \cup {Null}) =>
         \A id \in DOMAIN rows : Up(id, Cardinality(DOMAIN rows)) = Null

\* ------------------------------------------------- expense store: overlapping calls
\* the rows of the expenses table as the store would list them
TableEntries == {StoreEntry(id, rows[id]) : id \in DOMAIN rows}
StoreInFlight == \E c \in Callers : sc[c].pc \in {"calling", "settled"}
\* C30: once every in-flight loadExpenses/addExpense/removeExpense call has
\* completed, store.expenses holds exactly the rows of the expenses table, also
\* when a loadExpenses overlapped an addExpense or removeExpense; and isLoading is
\* true whenever at least one call is still in flight.
C30_StoreConvergesToTable ==
  /\ ~StoreInFlight =>
       /\ {store.expenses[i] : i \in 1..Len(store.expenses)} = TableEntries
       /\ Len(store.expenses) = Cardinality(TableEntries)
  /\ StoreInFlight => store.isLoading

============================================================================
